---- MODULE Spec2Model ----
(***************************************************************************)
(* MobileAgent: the state-driven patrol engine.                            *)
(*                                                                         *)
(*   PatrolStateMachine  (src/src/patrol.py)         run / stop            *)
(*   StateTracker        (src/src/state_tracker.py)  visited set, history  *)
(*   DeterministicExecutor (src/src/executor.py)     observe-act-verify    *)
(*                                                                         *)
(* Python strings are modelled as sequences of one-character strings, so   *)
(* that formatting (f-strings), slicing and substring tests are computed   *)
(* as the code computes them.  A digest (md5) is modelled as injective: it *)
(* is represented by the string it is computed from.                       *)
(***************************************************************************)
EXTENDS Integers, Sequences, FiniteSets, TLC

VARIABLES
    \* ---- PatrolStateMachine (patrol.py:250-260) ----
    pc,               \* position of the thread that executes run()
    state,            \* self.state, a PatrolState value
    report,           \* self.report
    posts_collected,  \* self.posts_collected
    current_post,     \* self.current_post
    scroll_count,     \* self.scroll_count
    error_count,      \* self.error_count
    start_time,       \* self.start_time
    post,             \* the post dict _visit_post is working on
    \* ---- StateTracker (state_tracker.py:264-278) ----
    current_state,    \* tracker.current_state, a NavigationState value
    history,          \* tracker.history
    visited,          \* tracker.visited: item id -> VisitedItem
    stats,            \* tracker.stats
    \* ---- DeterministicExecutor (executor.py:307-308) ----
    last_state,       \* executor.last_state
    state_history,    \* executor.state_history
    call,             \* the latest call of the executor: inputs, commands, result
    calls,            \* calls of the executor made so far
    \* ---- the device and the wall clock (environment) ----
    platform,         \* the platform the machine was constructed for
    feed,             \* the post cards the results page shows at each scroll position
    dev,              \* what the device shows
    clock,            \* time.time(), in minutes
    \* ---- history variables of the verification ----
    processed,        \* ids of the cards _visit_post has marked visited
    stop_called,      \* stop() was called while the patrol loop was executing
    caught,           \* exceptions caught by the loop's handler in this run
    visit_click,      \* result of the post click of the iteration in progress
    posts_at_click,   \* len(posts_collected) when that click was made
    errors_at_click,  \* error_count when that click was made
    iterations,       \* loop iterations started in this run
    search,           \* what the attempts of _do_search did in this run
    back,             \* what the latest _back_to_results did
    loop_exit,        \* why the patrol loop of this run ended
    \* ---- the session file and the caller of the tracker ----
    file,             \* the tracker's session file (tracker.data_file)
    tcall,            \* the latest call of the tracker: inputs and value
    run,              \* the pushes and pops of the latest run of push_history calls
    marked,           \* what the caller got back from its mark_visited calls
    progress          \* what the latest get_progress() returned

vars == << pc, state, report, posts_collected, current_post, scroll_count,
           error_count, start_time, post, current_state, history, visited,
           stats, last_state, state_history, call, calls, platform, feed, dev,
           clock,
           processed, stop_called, caught, visit_click, posts_at_click,
           errors_at_click, iterations, search, back, loop_exit, file, tcall,
           run, marked, progress >>

patrol_vars == << pc, state, report, posts_collected, current_post,
                  scroll_count, error_count, start_time, post >>
tracker_vars == << current_state, history, visited, stats >>
executor_vars == << last_state, state_history, call, calls >>
ghost_vars == << processed, stop_called, caught, visit_click, posts_at_click,
                 errors_at_click, iterations, search, back, loop_exit >>

(***************************************************************************)
(* Configuration (PatrolConfig, patrol.py:56-79) and program constants.    *)
(***************************************************************************)
max_posts == 2
max_scrolls == 1
max_time_minutes == 1
max_consecutive_errors == 2
comments_per_post == 1
comment_scrolls == 2
max_retries == 3
HistoryLimit == 50
StateHistoryLimit == 20
search_attempts == 3
\* Bounds of the exploration.
MaxIterations == 3
MaxCalls == 2
StatCap == 8

Min(a, b) == IF a < b THEN a ELSE b

(***************************************************************************)
(* Strings.                                                                *)
(***************************************************************************)
Bar == << "|" >>
Empty == << >>

\* s[:n]
Take(s, n) == SubSeq(s, 1, Min(n, Len(s)))

\* str(n) for n >= 0
RECURSIVE IntStr(_)
IntStr(n) ==
    IF n < 10 THEN << ToString(n) >>
    ELSE IntStr(n \div 10) \o << ToString(n % 10) >>

\* Truthiness of a Python string or None (None is modelled as the empty string).
Truthy(s) == s # Empty

\* a or b
Or(a, b) == IF Truthy(a) THEN a ELSE b

(***************************************************************************)
(* PatrolState (patrol.py:142-158) and NavigationState                     *)
(* (state_tracker.py:52-64).                                               *)
(***************************************************************************)
PatrolState ==
    { "init", "launching_app", "finding_search", "typing_query",
      "viewing_results", "entering_post", "reading_post", "entering_comments",
      "reading_comments", "returning_to_post", "returning_to_results",
      "scrolling_results", "completed", "stopped", "error" }

NavigationState ==
    { "unknown", "home_feed", "search_input", "search_results", "post_detail",
      "comments", "profile", "settings", "popup", "login_wall", "error" }

ActionResult == { "success", "partial", "no_change", "timeout", "error" }

(***************************************************************************)
(* Element and ScreenState (executor.py:65-251).                           *)
(***************************************************************************)
\* str.lower(); a character outside A..Z is its own lower case.
LowerChar(c) ==
    CASE c = "A" -> "a" [] c = "B" -> "b" [] c = "C" -> "c" [] c = "D" -> "d"
      [] c = "E" -> "e" [] c = "F" -> "f" [] c = "G" -> "g" [] c = "H" -> "h"
      [] c = "I" -> "i" [] c = "J" -> "j" [] c = "K" -> "k" [] c = "L" -> "l"
      [] c = "M" -> "m" [] c = "N" -> "n" [] c = "O" -> "o" [] c = "P" -> "p"
      [] c = "Q" -> "q" [] c = "R" -> "r" [] c = "S" -> "s" [] c = "T" -> "t"
      [] c = "U" -> "u" [] c = "V" -> "v" [] c = "W" -> "w" [] c = "X" -> "x"
      [] c = "Y" -> "y" [] c = "Z" -> "z"
      [] OTHER -> c

Lower(s) == [i \in 1..Len(s) |-> LowerChar(s[i])]

\* a in b  (substring test)
In(a, b) ==
    \E i \in 1..(Len(b) + 1) :
        /\ i + Len(a) - 1 <= Len(b)
        /\ SubSeq(b, i, i + Len(a) - 1) = a

\* Element (executor.py:65-77), with the dataclass defaults.
El(text, content_desc, element_type, identifier) ==
    [ text |-> text, content_desc |-> content_desc,
      element_type |-> element_type, identifier |-> identifier,
      bounds |-> << 0, 0, 0, 0 >>, clickable |-> TRUE, scrollable |-> FALSE ]

\* Element.matches(text=value)  (executor.py:95-103)
matches_text(el, value) == In(Lower(value), Lower(el.text))

\* ScreenState.find(text=value)  (executor.py:236-241): found or not
find_text(snap, value) ==
    \E i \in 1..Len(snap.elements) : matches_text(snap.elements[i], value)

\* Element.matches(**criteria) (executor.py:95-122).  criteria maps keyword
\* names to values; a string is a sequence of characters, a boolean b the
\* sequence << b >>, None the empty sequence.
matches(el, criteria) ==
    \A key \in DOMAIN criteria :
       LET value == criteria[key]
       IN  \/ value = Empty
           \/ CASE key = "text" -> In(Lower(value), Lower(el.text))
                [] key = "text_exact" -> value = el.text
                [] key = "type" -> In(Lower(value), Lower(el.element_type))
                [] key = "identifier" -> In(Lower(value), Lower(el.identifier))
                [] key = "content_desc" -> In(Lower(value), Lower(el.content_desc))
                [] key = "clickable" -> el.clickable = value[1]
                [] key = "scrollable" -> el.scrollable = value[1]
                [] OTHER -> TRUE

\* A find that returns the last matching element.
find_last(snap, criteria) ==
    LET hits == { i \in 1..Len(snap.elements) : matches(snap.elements[i], criteria) }
    IN  IF hits = {} THEN Empty
        ELSE snap.elements[CHOOSE i \in hits : \A j \in hits : j <= i]

\* ScreenState.find(**criteria) (executor.py:236-241): the element, or None
find(snap, criteria) ==
    LET hits == { i \in 1..Len(snap.elements) : matches(snap.elements[i], criteria) }
    IN  IF hits = {} THEN Empty
        ELSE snap.elements[CHOOSE i \in hits : \A j \in hits : i <= j]

\* ScreenState.has_text  (executor.py:247-251)
has_text(snap, text) ==
    \E i \in 1..Len(snap.elements) :
        \/ In(Lower(text), Lower(snap.elements[i].text))
        \/ In(Lower(text), Lower(snap.elements[i].content_desc))

\* The digest of ScreenState.from_xml (executor.py:193-198): md5 over the
\* list of (text, type, identifier) of the elements.
xml_hash(elements) ==
    << "md5", [i \in 1..Len(elements) |->
                  << elements[i].text, elements[i].element_type,
                     elements[i].identifier >>] >>

\* ScreenState.from_xml (executor.py:170-205)
from_xml(elements) ==
    [ screen_hash |-> xml_hash(elements), elements |-> elements ]

\* str(e.bounds) of a bounds dict with x, y, width and height
bounds_str(bounds) ==
    IntStr(bounds[1]) \o << "," >> \o IntStr(bounds[2]) \o << "," >>
        \o IntStr(bounds[3]) \o << "," >> \o IntStr(bounds[4])

\* The digest of ScreenState.from_elements (executor.py:154-159): md5 over
\* the list of (text, type, identifier, str(bounds)) of the elements.
elements_hash(elements) ==
    << "md5", [i \in 1..Len(elements) |->
                  << elements[i].text, elements[i].element_type,
                     elements[i].identifier, bounds_str(elements[i].bounds) >>] >>

\* ScreenState.from_elements (executor.py:135-168), of the elements the
\* dicts of the MCP callback are parsed to.
from_elements(elements) ==
    [ screen_hash |-> elements_hash(elements), elements |-> elements ]

\* The snapshot _observe_via_uiautomator returns when the dump or the pull
\* fails (executor.py:375-386).
ErrorState == [ screen_hash |-> << "error" >>, elements |-> << >> ]

\* executor.last_state = None
NoState == [ screen_hash |-> << "none" >>, elements |-> << >> ]

(***************************************************************************)
(* The device.  The results page shows, at scroll position pos, the post   *)
(* cards feed[pos + 1]; a tap on a card opens the post, a tap on the reply *)
(* affordance of a post opens its comments, back leaves the current view.  *)
(***************************************************************************)
\* PostCard (platform_adapter.py:49-62): the fields the patrol reads.
CardA == [ author |-> << "A", "n", "n" >>, author_id |-> << "@", "a" >>,
           text |-> << "p", "1" >> ]
CardB == [ author |-> << "B", "o" >>, author_id |-> Empty,
           text |-> << "p", "2" >> ]

Feeds ==
    { << << CardA, CardB >>, << CardB >> >>,
      << << CardA >>, << >> >>,
      << << >>, << CardB >> >>,
      << << >>, << >> >> }

Platforms == { << "t", "h", "r", "e", "a", "d", "s" >>, << "x" >> }
Threads == << "t", "h", "r", "e", "a", "d", "s" >>


LongComment == << "g", "r", "e", "a", "t", " ", "p", "o", "s", "t", "!" >>

\* The elements the UI dump of the device's screen holds.
Elements(d) ==
    CASE d.view = "results" ->
            [i \in 1..Len(feed[d.pos + 1]) |->
                El(feed[d.pos + 1][i].text, feed[d.pos + 1][i].author,
                   << "T", "e", "x", "t" >>, Empty)]
      [] d.view = "post" ->
            IF d.replies
            THEN << El(<< "L", "i", "k", "e" >>, Empty, Empty, Empty),
                    El(<< "R", "e", "p", "l", "y" >>, Empty, Empty, Empty) >>
            ELSE << El(<< "L", "i", "k", "e" >>, Empty, Empty, Empty) >>
      [] d.view = "comments" ->
            << El(LongComment, Empty, Empty, Empty),
               El(<< "O", "k" >>, Empty, Empty, Empty) >>
      [] OTHER -> << El(<< "S", "e", "a", "r", "c", "h" >>, Empty, Empty, Empty) >>

\* executor.observe() without an injected callback (executor.py:359-362,
\* 364-394): the snapshot parsed from the UI dump.
Snapshot(d) == from_xml(Elements(d))

\* The device after a tap on a post card / on the reply affordance.
TapCard(d, replies) ==
    IF d.view = "results" THEN [d EXCEPT !.view = "post", !.replies = replies]
    ELSE d
TapReplies(d) ==
    IF d.view = "post" /\ d.replies THEN [d EXCEPT !.view = "comments"] ELSE d

\* The device after the back key.
Back(d) ==
    CASE d.view = "comments" -> [d EXCEPT !.view = "post"]
      [] d.view = "post" -> [d EXCEPT !.view = "results", !.replies = FALSE]
      [] OTHER -> [d EXCEPT !.view = "outside", !.replies = FALSE]

\* The device after a swipe up: the results page scrolls until its end.
SwipeUp(d) ==
    IF d.view = "results" /\ d.pos + 1 < Len(feed)
    THEN [d EXCEPT !.pos = d.pos + 1]
    ELSE d

(***************************************************************************)
(* Platform adapter and post dicts.                                        *)
(***************************************************************************)
\* PostCard.unique_id (platform_adapter.py:64-69); text_preview is text[:100].
unique_id(card, index) ==
    card.author_id \o Bar \o Take(Take(card.text, 100), 50) \o Bar \o IntStr(index)

\* adapter.extract_post_cards on the screen the device shows: the cards of
\* the results page, indexed in extraction order; no card on any other view.
extract_post_cards(d) ==
    IF d.view = "results"
    THEN [i \in 1..Len(feed[d.pos + 1]) |->
             [ card |-> feed[d.pos + 1][i], index |-> i - 1 ]]
    ELSE << >>

\* _scan_visible_posts (patrol.py:485-505): the post dicts of the cards.
_scan_visible_posts(d) ==
    LET cards == extract_post_cards(d)
    IN  [i \in 1..Len(cards) |->
            [ text |-> cards[i].card.text,
              author |-> Or(cards[i].card.author_id, cards[i].card.author),
              id |-> unique_id(cards[i].card, cards[i].index) ]]

NoPost == [ text |-> Empty, author |-> Empty, id |-> Empty ]

(***************************************************************************)
(* StateTracker (state_tracker.py).                                        *)
(***************************************************************************)
\* A keyword argument of a call, or the parameter's default.
Arg(kwargs, key, default) ==
    IF key \in DOMAIN kwargs THEN kwargs[key] ELSE default

\* VisitedItem.from_post(title="", author="", index=0, platform="", **extra)
\* (state_tracker.py:206-220).  The id is the digest of
\* "{title}|{author}|{index}|{platform}"; every keyword that is not one of the
\* four named parameters lands in extra and is stored as the item's data.
from_post(kwargs) ==
    LET title == Arg(kwargs, "title", Empty)
        author == Arg(kwargs, "author", Empty)
        index == Arg(kwargs, "index", 0)
        plat == Arg(kwargs, "platform", Empty)
        extra == [k \in DOMAIN kwargs \ {"title", "author", "index", "platform"}
                     |-> kwargs[k]]
    IN  [ item_id |-> title \o Bar \o author \o Bar \o IntStr(index) \o Bar \o plat,
          title |-> title, author |-> author, platform |-> plat, data |-> extra ]

\* A statistics counter after one more event.  Counters are exact below
\* StatCap and stay at StatCap above it.
Count(n) == IF n < StatCap THEN n + 1 ELSE n

\* mark_visited(**kwargs) (state_tracker.py:406-424): the item it records.
mark_visited_item(kwargs) == from_post(kwargs @@ ("platform" :> platform))

\* tracker.visited after mark_visited(**kwargs)
mark_visited(kwargs) ==
    LET item == mark_visited_item(kwargs)
    IN  [k \in DOMAIN visited \cup {item.item_id} |->
            IF k = item.item_id THEN item ELSE visited[k]]

\* tracker.stats after mark_visited
mark_visited_stats(st) == [st EXCEPT !.posts_visited = Count(@)]

\* is_visited that looks a post's fields up at index 0 whatever its index.
is_visited_first_index(item_id, title, author, index) ==
    IF Truthy(item_id)
    THEN item_id \in DOMAIN visited
    ELSE from_post([title |-> Or(title, Empty), author |-> Or(author, Empty),
                    index |-> 0, platform |-> platform]).item_id
             \in DOMAIN visited

\* is_visited(item_id=None, title=None, author=None, index=0)
\* (state_tracker.py:426-443)
is_visited(item_id, title, author, index) ==
    IF Truthy(item_id)
    THEN item_id \in DOMAIN visited
    ELSE from_post([title |-> Or(title, Empty), author |-> Or(author, Empty),
                    index |-> index, platform |-> platform]).item_id
             \in DOMAIN visited

\* push_history that drops the newest entry of a full history.
push_history_keeping_oldest(h, screen_hash, data) ==
    LET appended == Append(h, [ state |-> current_state,
                                screen_hash |-> screen_hash, data |-> data ])
    IN  IF Len(appended) > HistoryLimit
        THEN SubSeq(appended, 1, HistoryLimit)
        ELSE appended

\* push_history(screen_hash, data) (state_tracker.py:463-479)
push_history(h, screen_hash, data) ==
    LET appended == Append(h, [ state |-> current_state,
                                screen_hash |-> screen_hash, data |-> data ])
    IN  IF Len(appended) > HistoryLimit
        THEN SubSeq(appended, Len(appended) - HistoryLimit + 1, Len(appended))
        ELSE appended

\* pop_history that takes the oldest entry off.
pop_history_front(h) == IF h # << >> THEN SubSeq(h, 2, Len(h)) ELSE h

\* pop_history() (state_tracker.py:481-486): the history and the stats after it
pop_history(h) == IF h # << >> THEN SubSeq(h, 1, Len(h) - 1) ELSE h
pop_history_stats(h, st) ==
    IF h # << >> THEN [st EXCEPT !.back_navigations = Count(@)] ELSE st

\* record_scroll() (state_tracker.py:501-503)
record_scroll(st) == [st EXCEPT !.scrolls = Count(@)]

\* get_stats() (state_tracker.py:510-516); the two time stamps are left out.
get_stats ==
    [ posts_visited |-> stats.posts_visited, scrolls |-> stats.scrolls,
      back_navigations |-> stats.back_navigations, errors |-> stats.errors,
      visited_count |-> Cardinality(DOMAIN visited),
      history_depth |-> Len(history) ]

\* StateSignal (state_tracker.py:68-74)
StateSignal(texts, element_types, identifiers, exclude_texts) ==
    [ texts |-> texts, element_types |-> element_types,
      identifiers |-> identifiers, exclude_texts |-> exclude_texts ]

\* STATE_SIGNALS (state_tracker.py:78-189), for the platforms of Platforms
\* and the default: each table in the order of its dict, as pairs of a state
\* and its signal.  A character that is not ASCII is written as its code
\* point.
STATE_SIGNALS ==
  [
    threads |->
    <<
       << "search_input",
          StateSignal(<< << "S", "e", "a", "r", "c", "h" >>,
                        << "U+641C", "U+5C0B" >> >>,
                      << << "E", "d", "i", "t", "T", "e", "x", "t" >> >>,
                      << >>,
                      << >>) >>,
       << "search_results",
          StateSignal(<< << "T", "o", "p" >>,
                        << "R", "e", "c", "e", "n", "t" >>,
                        << "A", "c", "c", "o", "u", "n", "t", "s" >>,
                        << "U+71B1", "U+9580" >>,
                        << "U+6700", "U+65B0" >>,
                        << "U+5E33", "U+865F" >> >>,
                      << >>,
                      << >>,
                      << << "S", "e", "a", "r", "c", "h" >>,
                        << "U+641C", "U+5C0B" >> >>) >>,
       << "post_detail",
          StateSignal(<< << "R", "e", "p", "l", "y" >>,
                        << "U+56DE", "U+8986" >>,
                        << "L", "i", "k", "e" >>,
                        << "U+8B9A" >> >>,
                      << >>,
                      << << "t", "h", "r", "e", "a", "d", "_", "v", "i", "e", "w" >>,
                        << "p", "o", "s", "t", "_", "d", "e", "t", "a", "i", "l" >> >>,
                      << >>) >>,
       << "comments",
          StateSignal(<< << "r", "e", "p", "l", "i", "e", "s" >>,
                        << "U+5247", "U+56DE", "U+8986" >> >>,
                      << >>,
                      << >>,
                      << >>) >>,
       << "home_feed",
          StateSignal(<< >>,
                      << << "R", "e", "c", "y", "c", "l", "e", "r", "V", "i", "e", "w" >> >>,
                      << << "f", "e", "e", "d" >>,
                        << "t", "i", "m", "e", "l", "i", "n", "e" >> >>,
                      << >>) >>
    >>,
    x |->
    <<
       << "search_input",
          StateSignal(<< << "S", "e", "a", "r", "c", "h" >>,
                        << "U+641C", "U+5C0B" >> >>,
                      << << "E", "d", "i", "t", "T", "e", "x", "t" >> >>,
                      << >>,
                      << >>) >>,
       << "search_results",
          StateSignal(<< << "T", "o", "p" >>,
                        << "L", "a", "t", "e", "s", "t" >>,
                        << "P", "e", "o", "p", "l", "e" >>,
                        << "P", "h", "o", "t", "o", "s" >>,
                        << "V", "i", "d", "e", "o", "s" >>,
                        << "U+71B1", "U+9580" >>,
                        << "U+6700", "U+65B0" >> >>,
                      << >>,
                      << >>,
                      << >>) >>,
       << "post_detail",
          StateSignal(<< << "R", "e", "p", "l", "y" >>,
                        << "R", "e", "p", "o", "s", "t" >>,
                        << "L", "i", "k", "e" >>,
                        << "U+56DE", "U+8986" >>,
                        << "U+8F49", "U+63A8" >>,
                        << "U+559C", "U+6B61" >> >>,
                      << >>,
                      << >>,
                      << >>) >>
    >>,
    default |->
    <<
       << "search_input",
          StateSignal(<< << "S", "e", "a", "r", "c", "h" >>,
                        << "U+641C", "U+5C0B" >>,
                        << "U+691C", "U+7D22" >> >>,
                      << << "E", "d", "i", "t", "T", "e", "x", "t" >>,
                        << "T", "e", "x", "t", "F", "i", "e", "l", "d" >> >>,
                      << >>,
                      << >>) >>,
       << "search_results",
          StateSignal(<< << "T", "o", "p" >>,
                        << "R", "e", "c", "e", "n", "t" >>,
                        << "A", "l", "l" >>,
                        << "U+71B1", "U+9580" >>,
                        << "U+6700", "U+65B0" >>,
                        << "U+5168", "U+90E8" >> >>,
                      << >>,
                      << >>,
                      << >>) >>,
       << "post_detail",
          StateSignal(<< << "L", "i", "k", "e" >>,
                        << "C", "o", "m", "m", "e", "n", "t" >>,
                        << "S", "h", "a", "r", "e" >>,
                        << "R", "e", "p", "l", "y" >>,
                        << "U+8B9A" >>,
                        << "U+7559", "U+8A00" >>,
                        << "U+5206", "U+4EAB" >>,
                        << "U+56DE", "U+8986" >> >>,
                      << >>,
                      << >>,
                      << >>) >>,
       << "login_wall",
          StateSignal(<< << "L", "o", "g", " ", "i", "n" >>,
                        << "S", "i", "g", "n", " ", "i", "n" >>,
                        << "U+767B", "U+5165" >>,
                        << "S", "i", "g", "n", " ", "u", "p" >>,
                        << "U+8A3B", "U+518A" >> >>,
                      << >>,
                      << >>,
                      << >>) >>,
       << "popup",
          StateSignal(<< << "O", "K" >>,
                        << "C", "a", "n", "c", "e", "l" >>,
                        << "A", "l", "l", "o", "w" >>,
                        << "D", "e", "n", "y" >>,
                        << "U+78BA", "U+5B9A" >>,
                        << "U+53D6", "U+6D88" >>,
                        << "U+5141", "U+8A31" >>,
                        << "U+62D2", "U+7D55" >> >>,
                      << << "A", "l", "e", "r", "t", "D", "i", "a", "l", "o", "g" >>,
                        << "D", "i", "a", "l", "o", "g" >> >>,
                      << >>,
                      << >>) >>
    >>
  ]

\* STATE_SIGNALS.get(platform, {})
platform_signals(p) ==
    IF p = Threads THEN STATE_SIGNALS.threads
    ELSE IF p = << "x" >> THEN STATE_SIGNALS.x
    ELSE << >>

\* {**default_signals, **platform_signals} (state_tracker.py:308-312), in the
\* order the dict is iterated in: the states of the default in their order,
\* each with the platform's signal when the platform has one, then the
\* states only the platform has.
merged_signals(p) ==
    LET plat == platform_signals(p)
        dflt == STATE_SIGNALS.default
        keys(sigs) == { sigs[i][1] : i \in 1..Len(sigs) }
        at(st) == CHOOSE i \in 1..Len(plat) : plat[i][1] = st
    IN  [i \in 1..Len(dflt) |->
            IF dflt[i][1] \in keys(plat) THEN plat[at(dflt[i][1])] ELSE dflt[i]]
        \o SelectSeq(plat, LAMBDA e : e[1] \notin keys(dflt))

\* The sets detect_state collects from the elements
\* (state_tracker.py:314-327)
element_texts(elements) ==
    { Lower(elements[i].text) :
         i \in { j \in 1..Len(elements) : Truthy(elements[j].text) } }
    \cup { Lower(elements[i].content_desc) :
         i \in { j \in 1..Len(elements) : Truthy(elements[j].content_desc) } }

element_types(elements) ==
    { elements[i].element_type :
         i \in { j \in 1..Len(elements) : Truthy(elements[j].element_type) } }

element_ids(elements) ==
    { Lower(elements[i].identifier) :
         i \in { j \in 1..Len(elements) : Truthy(elements[j].identifier) } }

\* One loop of _calculate_signal_score: the number of entries of wanted
\* (lowered first when lower is set) that are inside a string of seen.
RECURSIVE count_matched(_, _, _)
count_matched(wanted, seen, lower) ==
    IF wanted = << >> THEN 0
    ELSE LET w == IF lower THEN Lower(Head(wanted)) ELSE Head(wanted)
         IN  (IF \E t \in seen : In(w, t) THEN 1 ELSE 0)
             + count_matched(Tail(wanted), seen, lower)

\* _calculate_signal_score that does not look at the exclusions.
_calculate_signal_score_no_exclusions(signal, texts, types, ids) ==
    LET score == 2 * count_matched(signal.texts, texts, TRUE)
                 + count_matched(signal.element_types, types, FALSE)
                 + 2 * count_matched(signal.identifiers, ids, TRUE)
    IN  IF score > 0 THEN score ELSE 0

\* _calculate_signal_score (state_tracker.py:348-373)
_calculate_signal_score(signal, texts, types, ids) ==
    LET score == 2 * count_matched(signal.texts, texts, TRUE)
                 + count_matched(signal.element_types, types, FALSE)
                 + 2 * count_matched(signal.identifiers, ids, TRUE)
                 - 3 * count_matched(signal.exclude_texts, texts, TRUE)
    IN  IF score > 0 THEN score ELSE 0

\* The loop of detect_state over the signals from the k-th on
\* (state_tracker.py:329-336); best is best_match and best_score so far.
RECURSIVE detect_loop(_, _, _, _)
detect_loop(signals, k, elements, best) ==
    IF k > Len(signals) THEN best
    ELSE LET score == _calculate_signal_score(signals[k][2],
                                              element_texts(elements),
                                              element_types(elements),
                                              element_ids(elements))
         IN  detect_loop(signals, k + 1, elements,
                         IF score > best.score
                         THEN [ match |-> signals[k][1], score |-> score ]
                         ELSE best)

\* detect_state(elements) (state_tracker.py:297-346): the state it returns
\* and stores as current_state.
detect_state(elements) ==
    detect_loop(merged_signals(platform), 1, elements,
                [ match |-> "unknown", score |-> 0 ]).match

\* The session file when there is none, and when it is no JSON document.
NoFile == [ kind |-> "absent" ]
Unparseable == [ kind |-> "garbage" ]

\* save() (state_tracker.py:522-545): the document it writes to the session
\* file; the time stamps are left out.
save ==
    [ kind |-> "json",
      platform |-> platform,
      current_state |-> current_state,
      visited |-> [k \in DOMAIN visited |->
                      [ item_id |-> visited[k].item_id, title |-> visited[k].title,
                        author |-> visited[k].author,
                        platform |-> visited[k].platform,
                        data |-> visited[k].data ]],
      history |-> [i \in 1..Len(history) |->
                      [ state |-> history[i].state,
                        screen_hash |-> history[i].screen_hash,
                        data |-> history[i].data ]],
      stats |-> stats ]

\* The tracker as __init__ leaves it before load() (state_tracker.py:264-282)
fresh(platform_arg) ==
    [ platform |-> Lower(platform_arg), current_state |-> "unknown",
      visited |-> << >>, history |-> << >>,
      stats |-> [ posts_visited |-> 0, scrolls |-> 0, back_navigations |-> 0,
                  errors |-> 0 ],
      loaded |-> FALSE ]

\* VisitedItem(**item_data) (state_tracker.py:196-204) raises a TypeError
\* when item_id is missing or a key is no field of the dataclass.
bad_item(item_data) ==
    \/ "item_id" \notin DOMAIN item_data
    \/ ~(DOMAIN item_data \subseteq
            {"item_id", "title", "author", "platform", "timestamp", "data"})

VisitedItem(item_data) ==
    [ item_id |-> item_data.item_id,
      title |-> Arg(item_data, "title", Empty),
      author |-> Arg(item_data, "author", Empty),
      platform |-> Arg(item_data, "platform", Empty),
      data |-> Arg(item_data, "data", << >>) ]

\* The HistoryEntry load() builds of entry_data (state_tracker.py:565-570)
\* raises a KeyError for a missing key and a ValueError for a state name
\* that NavigationState does not have.
bad_entry(entry_data) ==
    \/ ~({"state", "screen_hash"} \subseteq DOMAIN entry_data)
    \/ entry_data.state \notin NavigationState

HistoryEntry(entry_data) ==
    [ state |-> entry_data.state, screen_hash |-> entry_data.screen_hash,
      data |-> Arg(entry_data, "data", << >>) ]

\* The file is there and load() raises while it reads it.
corrupt(f) ==
    \/ f.kind = "garbage"
    \/ /\ f.kind = "json"
       /\ \/ f.current_state \notin NavigationState
          \/ \E k \in DOMAIN f.visited : bad_item(f.visited[k])
          \/ \E i \in 1..Len(f.history) : bad_entry(f.history[i])

\* load() without the assignment of self.visited.
load_forgetting_visited(t, f, kept) ==
    IF f.kind # "json" THEN t
    ELSE LET t1 == [t EXCEPT !.platform = f.platform]
             t2 == [t1 EXCEPT !.current_state = f.current_state]
             bad == { i \in 1..Len(f.history) : bad_entry(f.history[i]) }
             first_bad == CHOOSE i \in bad : \A j \in bad : i <= j
         IN  IF f.current_state \notin NavigationState THEN t1
             ELSE IF \E k \in DOMAIN f.visited : bad_item(f.visited[k]) THEN t2
             ELSE IF bad # {}
             THEN [t2 EXCEPT !.history =
                      [i \in 1..(first_bad - 1) |-> HistoryEntry(f.history[i])]]
             ELSE [t2 EXCEPT !.history =
                      [i \in 1..Len(f.history) |-> HistoryEntry(f.history[i])],
                             !.stats = f.stats, !.loaded = TRUE]

\* load() on a tracker t when the session file is f (state_tracker.py:
\* 547-581); nothing is read when there is no file (state_tracker.py:284,
\* 549).  The exception handler returns False and leaves what was assigned
\* before the exception.  kept are the ids of the items stored before the
\* item that raised, when one does.
load(t, f, kept) ==
    IF f.kind # "json" THEN t
    ELSE LET t1 == [t EXCEPT !.platform = f.platform]
             t2 == [t1 EXCEPT !.current_state = f.current_state]
             t3 == [t2 EXCEPT !.visited =
                       [k \in DOMAIN f.visited |-> VisitedItem(f.visited[k])]]
             bad == { i \in 1..Len(f.history) : bad_entry(f.history[i]) }
             first_bad == CHOOSE i \in bad : \A j \in bad : i <= j
         IN  IF f.current_state \notin NavigationState THEN t1
             ELSE IF \E k \in DOMAIN f.visited : bad_item(f.visited[k])
             THEN [t2 EXCEPT !.visited =
                      [k \in kept |-> VisitedItem(f.visited[k])]]
             ELSE IF bad # {}
             THEN [t3 EXCEPT !.history =
                      [i \in 1..(first_bad - 1) |-> HistoryEntry(f.history[i])]]
             ELSE [t3 EXCEPT !.history =
                      [i \in 1..Len(f.history) |-> HistoryEntry(f.history[i])],
                             !.stats = f.stats, !.loaded = TRUE]

\* The caller of the tracker before its first call.
NoTrackerCall == [ op |-> "none", args |-> << >>, value |-> << >>, depth |-> 0 ]
NoRun == [ pushed |-> << >>, pops |-> 0, phase |-> "push", count |-> 0 ]

(***************************************************************************)
(* DeterministicExecutor: act and verify (executor.py:537-778).            *)
(***************************************************************************)
\* A verification that does not look for expected_gone.
Verified_ignoring_gone(before_hash, after, expected_text, expected_gone) ==
    IF after.screen_hash # before_hash
    THEN IF Truthy(expected_text) /\ ~has_text(after, expected_text)
         THEN FALSE
         ELSE TRUE
    ELSE FALSE

\* One pass of the verification loop's body decides whether the snapshot
\* just observed verifies the action (executor.py:586-599, 704-711, 756-766).
Verified(before_hash, after, expected_text, expected_gone) ==
    IF after.screen_hash # before_hash
    THEN IF Truthy(expected_text) /\ ~has_text(after, expected_text)
         THEN FALSE
         ELSE IF Truthy(expected_gone) /\ has_text(after, expected_gone)
              THEN FALSE
              ELSE TRUE
    ELSE FALSE

\* for attempt in range(max_retries): after_state = observe(); ...
\* obs[k] is the snapshot the k-th observe() of the loop returns.  The value
\* is the number of the attempt that returned SUCCESS, 0 when none did.
RECURSIVE verify_loop(_, _, _, _, _)
verify_loop(before_hash, obs, expected_text, expected_gone, attempt) ==
    IF attempt > max_retries
    THEN 0
    ELSE IF Verified(before_hash, obs[attempt], expected_text, expected_gone)
         THEN attempt
         ELSE verify_loop(before_hash, obs, expected_text, expected_gone,
                          attempt + 1)

\* The body of click_and_verify and back_and_verify when the result of the
\* input command is not looked at.
act_and_verify_unchecked(op, before, had_state, ok, obs, expected_text, expected_gone) ==
    LET first == IF had_state THEN << >> ELSE << "observe" >>
        first_seen == IF had_state THEN << >> ELSE << before >>
        n == verify_loop(before.screen_hash, obs, expected_text, expected_gone, 1)
        seen == IF n > 0 THEN n ELSE max_retries
    IN  [ result |-> IF n > 0 THEN "success" ELSE "no_change",
          before_state |-> before,
          after_state |-> obs[seen],
          commands |-> first \o << op >> \o [i \in 1..seen |-> "observe"],
          observed |-> first_seen \o [i \in 1..seen |-> obs[i]],
          last_state |-> obs[seen] ]

\* act_and_verify that takes no snapshot of its own before the command.
act_and_verify_unobserved(op, before, had_state, ok, obs, expected_text, expected_gone) ==
    LET n == verify_loop(before.screen_hash, obs, expected_text, expected_gone, 1)
    IN  IF ~ok
        THEN [ result |-> "error", before_state |-> before,
               after_state |-> NoState,
               commands |-> << op, "save_debug" >>,
               observed |-> << >>,
               last_state |-> before ]
        ELSE IF n > 0
             THEN [ result |-> "success", before_state |-> before,
                    after_state |-> obs[n],
                    commands |-> << op >> \o [i \in 1..n |-> "observe"],
                    observed |-> [i \in 1..n |-> obs[i]],
                    last_state |-> obs[n] ]
             ELSE [ result |-> "no_change", before_state |-> before,
                    after_state |-> obs[max_retries],
                    commands |-> << op >>
                                    \o [i \in 1..max_retries |-> "observe"]
                                    \o << "save_debug" >>,
                    observed |-> [i \in 1..max_retries |-> obs[i]],
                    last_state |-> obs[max_retries] ]

\* act_and_verify whose retries send the input command again before each
\* further observation.
act_and_verify_resending(op, before, had_state, ok, obs, expected_text, expected_gone) ==
    LET first == IF had_state THEN << >> ELSE << "observe" >>
        first_seen == IF had_state THEN << >> ELSE << before >>
        n == verify_loop(before.screen_hash, obs, expected_text, expected_gone, 1)
        seen == IF n > 0 THEN n ELSE max_retries
        tries == [i \in 1..(2 * seen) |-> IF i % 2 = 1 THEN op ELSE "observe"]
    IN  IF ~ok
        THEN [ result |-> "error", before_state |-> before,
               after_state |-> NoState,
               commands |-> first \o << op, "save_debug" >>,
               observed |-> first_seen,
               last_state |-> before ]
        ELSE [ result |-> IF n > 0 THEN "success" ELSE "no_change",
               before_state |-> before,
               after_state |-> obs[seen],
               commands |-> first \o tries
                               \o (IF n > 0 THEN << >> ELSE << "save_debug" >>),
               observed |-> first_seen \o [i \in 1..seen |-> obs[i]],
               last_state |-> obs[seen] ]

\* The body shared by click_and_verify (executor.py:563-613) and
\* back_and_verify (executor.py:735-778), from the before-snapshot on:
\*   before    self.last_state or self.observe()
\*   ok        whether the input command (tap, back key) reported success
\*   obs       obs[k] is what the k-th observe() of the loop returns
\* The value is the ExecutionResult, with the commands the call issued and
\* the snapshots it observed, in order, and the executor's last_state after
\* the call.
act_and_verify(op, before, had_state, ok, obs, expected_text, expected_gone) ==
    LET first == IF had_state THEN << >> ELSE << "observe" >>
        first_seen == IF had_state THEN << >> ELSE << before >>
        n == verify_loop(before.screen_hash, obs, expected_text, expected_gone, 1)
    IN  IF ~ok
        THEN [ result |-> "error", before_state |-> before,
               after_state |-> NoState,
               commands |-> first \o << op, "save_debug" >>,
               observed |-> first_seen,
               last_state |-> before ]
        ELSE IF n > 0
             THEN [ result |-> "success", before_state |-> before,
                    after_state |-> obs[n],
                    commands |-> first \o << op >> \o [i \in 1..n |-> "observe"],
                    observed |-> first_seen \o [i \in 1..n |-> obs[i]],
                    last_state |-> obs[n] ]
             ELSE [ result |-> "no_change", before_state |-> before,
                    after_state |-> obs[max_retries],
                    commands |-> first \o << op >>
                                    \o [i \in 1..max_retries |-> "observe"]
                                    \o << "save_debug" >>,
                    observed |-> first_seen \o [i \in 1..max_retries |-> obs[i]],
                    last_state |-> obs[max_retries] ]

\* click_and_verify(target, expected_text, expected_gone) (executor.py:537-613)
click_and_verify(last, ok, obs, expected_text, expected_gone) ==
    act_and_verify("tap", IF last = NoState THEN obs[0] ELSE last,
                   last # NoState, ok, obs, expected_text, expected_gone)

\* back_and_verify(expected_text) (executor.py:724-778)
back_and_verify(last, ok, obs, expected_text) ==
    act_and_verify("back", IF last = NoState THEN obs[0] ELSE last,
                   last # NoState, ok, obs, expected_text, Empty)

\* swipe_and_verify(direction) (executor.py:631-722).  It returns ERROR
\* before anything is sent when the screen size is unknown or the direction
\* is none of the four; no expectation is checked, and no debug artifacts
\* are saved when the screen did not change.
swipe_and_verify(last, size_ok, direction, ok, obs) ==
    LET before == IF last = NoState THEN obs[0] ELSE last
        r == act_and_verify("swipe", before, last # NoState, ok, obs, Empty, Empty)
    IN  IF ~size_ok \/ direction \notin {"up", "down", "left", "right"}
        THEN [ result |-> "error", before_state |-> NoState,
               after_state |-> NoState, commands |-> << >>,
               observed |-> << >>, last_state |-> last ]
        ELSE IF r.result = "no_change"
             THEN [r EXCEPT !.commands = SubSeq(@, 1, Len(@) - 1)]
             ELSE r

\* find_element(state, **criteria) (executor.py:489-511), with
\* executor.last_state = last
find_element(state_arg, last, criteria) ==
    LET searched == IF state_arg = NoState THEN last ELSE state_arg
    IN  IF searched = NoState THEN Empty ELSE find(searched, criteria)

\* _update_state that keeps the oldest snapshots when the history is full.
RECURSIVE _update_state_keeping_oldest(_, _)
_update_state_keeping_oldest(h, seen) ==
    IF seen = << >> THEN h
    ELSE LET appended == Append(h, Head(seen))
         IN  _update_state_keeping_oldest(
                 IF Len(appended) > StateHistoryLimit
                 THEN SubSeq(appended, 1, StateHistoryLimit)
                 ELSE appended,
                 Tail(seen))

\* _update_state (executor.py:396-402), for each snapshot of seen in turn
RECURSIVE _update_state(_, _)
_update_state(h, seen) ==
    IF seen = << >> THEN h
    ELSE LET appended == Append(h, Head(seen))
         IN  _update_state(IF Len(appended) > StateHistoryLimit
                           THEN SubSeq(appended, Len(appended) - StateHistoryLimit + 1,
                                       Len(appended))
                           ELSE appended,
                           Tail(seen))

(***************************************************************************)
(* PatrolStateMachine (patrol.py).                                         *)
(***************************************************************************)
NoMsg == ""

NoPostData == [ title |-> Empty, author |-> Empty, comments |-> 0,
                post_id |-> Empty ]

\* PatrolReport(keyword, platform, start_time) (patrol.py:96-105, 289-293)
NewReport == [ end_time |-> 0, posts |-> << >>, stats |-> << >>, errors |-> << >> ]

NoCall == [ op |-> "none", ok |-> FALSE, result |-> "none", commands |-> << >>,
            had_state |-> FALSE,
            before_hash |-> << "none" >>, reobserved |-> << >>,
            expected_text |-> Empty, expected_gone |-> Empty ]

\* Nothing recorded yet about the search, the back navigation, the progress.
NoSearch == [ attempts |-> 0, yielded |-> << >>, fallback |-> FALSE,
             search_found |-> FALSE ]
NoBack == [ result |-> "none", commands |-> << >>,
            comments_click |-> "none", comments_back |-> FALSE ]
NoProgress == [ state |-> "none", posts_collected |-> 0, posts_target |-> 0,
               scrolls |-> 0, scrolls_max |-> 0, elapsed_seconds |-> 0,
               errors |-> 0 ]

LoopPcs == { "check", "scan", "scrolling", "entering", "reading",
             "entering_comments", "reading_comments", "returning_to_post",
             "returning", "complete" }

Init ==
    /\ pc = "idle"
    /\ state = "init"
    /\ report = NewReport
    /\ posts_collected = << >>
    /\ current_post = NoPostData
    /\ scroll_count = 0
    /\ error_count = 0
    /\ start_time = 0
    /\ post = NoPost
    /\ current_state = "unknown"
    /\ history = << >>
    /\ visited = << >>
    /\ stats = [ posts_visited |-> 0, scrolls |-> 0, back_navigations |-> 0,
                 errors |-> 0 ]
    /\ last_state = NoState
    /\ state_history = << >>
    /\ call = NoCall
    /\ calls = 0
    /\ platform \in Platforms
    /\ feed \in Feeds
    /\ dev = [ view |-> "app", pos |-> 0, replies |-> FALSE ]
    /\ clock = 1
    /\ processed = {}
    /\ stop_called = FALSE
    /\ caught = 0
    /\ visit_click = "none"
    /\ posts_at_click = 0
    /\ errors_at_click = 0
    /\ iterations = 0
    /\ file = NoFile
    /\ tcall = NoTrackerCall
    /\ run = NoRun
    /\ marked = {}
    /\ search = NoSearch
    /\ back = NoBack
    /\ loop_exit = "none"
    /\ progress = NoProgress

\* _should_continue without the check of the post budget.
_should_continue_unbounded ==
    IF clock - start_time >= max_time_minutes THEN FALSE
    ELSE IF error_count >= max_consecutive_errors THEN FALSE
    ELSE IF state \in {"completed", "stopped", "error"} THEN FALSE
    ELSE TRUE

\* _should_continue with a time budget that ends one minute late.
_should_continue_late ==
    IF Len(posts_collected) >= max_posts THEN FALSE
    ELSE IF clock - start_time > max_time_minutes THEN FALSE
    ELSE IF error_count >= max_consecutive_errors THEN FALSE
    ELSE IF state \in {"completed", "stopped", "error"} THEN FALSE
    ELSE TRUE

\* _should_continue (patrol.py:459-479)
_should_continue ==
    IF Len(posts_collected) >= max_posts THEN FALSE
    ELSE IF clock - start_time >= max_time_minutes THEN FALSE
    ELSE IF error_count >= max_consecutive_errors THEN FALSE
    ELSE IF state \in {"completed", "stopped", "error"} THEN FALSE
    ELSE TRUE

\* The check of _should_continue that ends the loop (patrol.py:459-479)
stopped_by ==
    IF Len(posts_collected) >= max_posts THEN "max_posts"
    ELSE IF clock - start_time >= max_time_minutes THEN "max_time_minutes"
    ELSE IF error_count >= max_consecutive_errors THEN "max_consecutive_errors"
    ELSE "state"

\* _finalize_report(error_msg) (patrol.py:698-721): the report it returns,
\* given the report's error list when it is called.  The statistics are
\* computed before error_msg is appended, and the tracker's statistics
\* replace the entries of the same name.
_finalize_report(errors, error_msg) ==
    [ end_time |-> clock,
      posts |-> posts_collected,
      stats |-> get_stats @@ [ posts_visited |-> Len(posts_collected),
                               scrolls |-> scroll_count,
                               errors |-> Len(errors) ],
      errors |-> IF error_msg # NoMsg THEN Append(errors, error_msg) ELSE errors ]

\* A handler of run() that records the error and raises it again.
run_except_reraise ==
    [ pc |-> "raised", state |-> "error",
      report |-> [report EXCEPT !.errors = Append(@, "Fatal error")] ]

\* except Exception in run() (patrol.py:309-314): the error is recorded, the
\* state forced to ERROR and the report finalized and returned.
run_except ==
    [ pc |-> "done", state |-> "error",
      report |-> _finalize_report(Append(report.errors, "Fatal error"), NoMsg) ]

\* A handler of _patrol_loop that records every exception in the report.
loop_except_record_all ==
    [ error_count |-> error_count + 1,
      errors |-> Append(report.errors, "Loop error"),
      pc |-> IF error_count + 1 >= max_consecutive_errors
             THEN "complete" ELSE "check" ]

\* except Exception in _patrol_loop (patrol.py:450-455)
loop_except ==
    [ error_count |-> error_count + 1,
      errors |-> IF error_count + 1 >= max_consecutive_errors
                 THEN Append(report.errors, "Too many errors")
                 ELSE report.errors,
      pc |-> IF error_count + 1 >= max_consecutive_errors
             THEN "complete" ELSE "check" ]

\* _find_unvisited_post (patrol.py:524-529): the position of the first post
\* whose id is not visited, 0 when there is none.
_find_unvisited_post(posts) ==
    LET unvisited == { i \in 1..Len(posts) :
                          ~is_visited(posts[i].id, Empty, Empty, 0) }
    IN  IF unvisited = {} THEN 0
        ELSE CHOOSE i \in unvisited : \A j \in unvisited : i <= j

\* The comment loop of _read_post_comments (patrol.py:635-656): the number
\* of comments kept, when every observation in it sees the snapshot snap.
long_texts(snap) ==
    Cardinality({ i \in 1..Len(snap.elements) : Len(snap.elements[i].text) > 10 })

RECURSIVE collect_comments(_, _, _)
collect_comments(snap, i, n) ==
    IF i >= comment_scrolls THEN n
    ELSE IF n + long_texts(snap) >= comments_per_post
         THEN n + long_texts(snap)
         ELSE collect_comments(snap, i + 1, n + long_texts(snap))

read_comments(snap) == Min(collect_comments(snap, 0, 0), comments_per_post)

\* get_progress with the number of posts taken from the report.
get_progress_from_report ==
    [ state |-> state,
      posts_collected |-> Len(report.posts),
      posts_target |-> max_posts,
      scrolls |-> scroll_count,
      scrolls_max |-> max_scrolls,
      elapsed_seconds |-> IF start_time # 0 THEN 60 * (clock - start_time) ELSE 0,
      errors |-> error_count ]

\* get_progress() (patrol.py:754-764): the dict it returns.  The clock of
\* the model counts minutes.
get_progress ==
    [ state |-> state,
      posts_collected |-> Len(posts_collected),
      posts_target |-> max_posts,
      scrolls |-> scroll_count,
      scrolls_max |-> max_scrolls,
      elapsed_seconds |-> IF start_time # 0 THEN 60 * (clock - start_time) ELSE 0,
      errors |-> error_count ]

\* What no step of run() changes.  The patrol never reads the executor's
\* state_history; its growth is followed where the executor is called alone.
fixed == << state_history, call, calls, platform, feed, tcall, run, marked,
           progress >>

\* The exception handler of run() takes over (patrol.py:309-314).
Fatal ==
    /\ pc' = run_except.pc
    /\ state' = run_except.state
    /\ report' = run_except.report
    /\ UNCHANGED file

\* The exception handler of _patrol_loop takes over (patrol.py:450-455).
Caught ==
    /\ pc' = loop_except.pc
    /\ error_count' = loop_except.error_count
    /\ report' = [report EXCEPT !.errors = loop_except.errors]
    /\ caught' = caught + 1
    /\ loop_exit' = IF loop_except.pc = "complete"
                    THEN "max_consecutive_errors" ELSE loop_exit

\* A phase of launch or search returns False and run() returns the finalized
\* report (patrol.py:299-304).
ReturnFalse(error, error_msg) ==
    /\ pc' = "done"
    /\ report' = _finalize_report(Append(report.errors, error), error_msg)
    /\ file' = save
    /\ UNCHANGED state

\* run(keyword) up to the call of _launch_app (patrol.py:283-295)
Run ==
    /\ pc = "idle"
    /\ pc' = "launch"
    /\ start_time' = clock
    /\ state' = "init"
    /\ report' = NewReport
    /\ stop_called' = FALSE
    /\ caught' = 0
    /\ iterations' = 0
    /\ search' = NoSearch
    /\ back' = NoBack
    /\ loop_exit' = "none"
    /\ UNCHANGED << posts_collected, current_post, scroll_count, error_count,
                    post, tracker_vars, last_state, fixed, file, dev, clock,
                    processed, visit_click, posts_at_click, errors_at_click >>

\* _launch_app up to self.state = LAUNCHING_APP (patrol.py:320-326)
LaunchApp ==
    /\ pc = "launch"
    /\ \E has_package \in BOOLEAN :
          IF has_package
          THEN /\ state' = "launching_app"
               /\ pc' = "launching"
               /\ UNCHANGED << report, file >>
          ELSE ReturnFalse("No package specified", "Failed to launch app")
    /\ UNCHANGED << posts_collected, current_post, scroll_count, error_count,
                    start_time, post, tracker_vars, last_state, fixed, dev,
                    clock, ghost_vars >>

\* _launch_app from router.launch_app on, then _do_search up to
\* self.state = FINDING_SEARCH (patrol.py:329-347)
Launching ==
    /\ pc = "launching"
    /\ \E outcome \in {"ok", "failed", "raised"} :
          CASE outcome = "ok" ->
                  /\ state' = "finding_search"
                  /\ pc' = "finding"
                  /\ UNCHANGED << report, file >>
            [] outcome = "failed" ->
                  ReturnFalse("Launch failed", "Failed to launch app")
            [] outcome = "raised" -> Fatal
    /\ UNCHANGED << posts_collected, current_post, scroll_count, error_count,
                    start_time, post, tracker_vars, last_state, fixed, dev,
                    clock, ghost_vars >>

\* What one attempt of _do_search meets: the adapter finds the search input
\* or not and the click on it succeeds or fails, and the same for the search
\* entry (patrol.py:355-376).
Attempts ==
    [ input : {"none", "clicked", "click_failed"},
      entry : {"none", "clicked", "click_failed"} ]

\* for attempt in range(3) of _do_search (patrol.py:352-386), from the given
\* attempt on: whether the search was found, the attempts made and whether
\* the hardcoded position was tapped.
RECURSIVE find_search(_, _, _)
find_search(p, tries, attempt) ==
    IF attempt > search_attempts
    THEN [ search_found |-> FALSE, attempts |-> search_attempts,
           fallback |-> FALSE ]
    ELSE IF tries[attempt].input = "clicked"
    THEN [ search_found |-> TRUE, attempts |-> attempt, fallback |-> FALSE ]
    ELSE IF tries[attempt].entry = "clicked"
    THEN [ search_found |-> TRUE, attempts |-> attempt, fallback |-> FALSE ]
    ELSE IF p = Threads
    THEN [ search_found |-> TRUE, attempts |-> attempt, fallback |-> TRUE ]
    ELSE find_search(p, tries, attempt + 1)

\* _do_search: the attempts to open the search (patrol.py:349-393).  Every
\* attempt observes the screen first; an observation that raises ends run()
\* in its handler.
Finding ==
    /\ pc = "finding"
    /\ \/ \E tries \in [1..search_attempts -> Attempts] :
             LET found == find_search(platform, tries, 1)
             IN  /\ search' = [ attempts |-> found.attempts,
                                yielded |-> [k \in 1..found.attempts |->
                                               \/ tries[k].input # "none"
                                               \/ tries[k].entry # "none"],
                                fallback |-> found.fallback,
                                search_found |-> found.search_found ]
                 /\ last_state' = Snapshot(dev)
                 /\ IF found.search_found
                    THEN /\ state' = "typing_query"
                         /\ pc' = "typing"
                         /\ UNCHANGED << report, file >>
                    ELSE ReturnFalse("Could not find search", "Failed to search")
       \/ /\ Fatal
          /\ UNCHANGED << last_state, search >>
    /\ UNCHANGED << posts_collected, current_post, scroll_count, error_count,
                    start_time, post, tracker_vars, fixed, dev, clock,
                    processed, stop_called, caught, visit_click, posts_at_click,
                    errors_at_click, iterations, back, loop_exit >>

\* _do_search: type the query (patrol.py:394-403)
Typing ==
    /\ pc = "typing"
    /\ \E outcome \in {"ok", "failed", "raised"} :
          CASE outcome = "ok" ->
                  /\ state' = "viewing_results"
                  /\ pc' = "verifying"
                  /\ dev' = [ view |-> "results", pos |-> 0, replies |-> FALSE ]
                  /\ UNCHANGED << report, file >>
            [] outcome = "failed" ->
                  /\ ReturnFalse("Failed to type search query", "Failed to search")
                  /\ UNCHANGED dev
            [] outcome = "raised" ->
                  /\ Fatal
                  /\ UNCHANGED dev
    /\ search' = NoSearch
    /\ UNCHANGED << posts_collected, current_post, scroll_count, error_count,
                    start_time, post, tracker_vars, last_state, fixed, clock,
                    processed, stop_called, caught, visit_click, posts_at_click,
                    errors_at_click, iterations, back, loop_exit >>

\* _do_search: observe the results and classify them (patrol.py:405-414);
\* detect_state classifies the observed elements.
Verifying ==
    /\ pc = "verifying"
    /\ \/ /\ last_state' = Snapshot(dev)
          /\ current_state' = detect_state(Snapshot(dev).elements)
          /\ pc' = "check"
          /\ UNCHANGED << state, report, file >>
       \/ /\ Fatal
          /\ UNCHANGED << last_state, current_state >>
    /\ UNCHANGED << posts_collected, current_post, scroll_count, error_count,
                    start_time, post, history, visited, stats, fixed, dev,
                    clock, ghost_vars >>

\* while self._should_continue() (patrol.py:422)
Check(capped) ==
    /\ pc = "check"
    /\ capped => iterations < MaxIterations
    /\ IF _should_continue
       THEN /\ pc' = "scan"
            /\ iterations' = IF capped THEN iterations + 1 ELSE iterations
            /\ UNCHANGED loop_exit
       ELSE /\ pc' = "complete"
            /\ loop_exit' = stopped_by
            /\ UNCHANGED iterations
    /\ visit_click' = "none"
    /\ back' = NoBack
    /\ UNCHANGED << state, report, posts_collected, current_post, scroll_count,
                    error_count, start_time, post, tracker_vars, last_state,
                    fixed, file, dev, clock, processed, stop_called, caught,
                    posts_at_click, errors_at_click, search >>

\* A test that allows a scroll when the budget is already used up.
may_scroll_once_more == scroll_count <= max_scrolls

\* if self.scroll_count < self.config.max_scrolls (patrol.py:428, 441)
may_scroll == scroll_count < max_scrolls

\* The loop body from the scan to the first assignment of self.state
\* (patrol.py:424-448, 485-505, 524-537, 682-684).
Scan(Raises) ==
    /\ pc = "scan"
    /\ \E raises \in Raises :
          IF raises
          THEN /\ Caught
               /\ UNCHANGED << state, post, last_state >>
          ELSE LET posts == _scan_visible_posts(dev)
                   i == _find_unvisited_post(posts)
               IN  /\ last_state' = Snapshot(dev)
                   /\ IF posts # << >> /\ i > 0
                      THEN /\ post' = posts[i]
                           /\ state' = "entering_post"
                           /\ pc' = "entering"
                      ELSE /\ IF may_scroll
                              THEN /\ state' = "scrolling_results"
                                   /\ pc' = "scrolling"
                              ELSE /\ pc' = "complete"
                                   /\ UNCHANGED state
                           /\ UNCHANGED post
                   /\ loop_exit' = IF pc' = "complete"
                                   THEN "max_scrolls" ELSE loop_exit
                   /\ UNCHANGED << report, error_count, caught >>
    /\ UNCHANGED << posts_collected, current_post, scroll_count, start_time,
                    tracker_vars, fixed, file, dev, clock, processed, stop_called,
                    visit_click, posts_at_click, errors_at_click, iterations, search, back >>

\* _scroll_results after self.state = SCROLLING_RESULTS (patrol.py:685-692).
\* router.swipe("up") swipes and verifies; its result is not looked at.
Scrolling(Raises) ==
    /\ pc = "scrolling"
    /\ \E raises \in Raises :
          IF raises
          THEN /\ Caught
               /\ UNCHANGED << state, scroll_count, stats, dev >>
          ELSE /\ \E moved \in BOOLEAN :
                     dev' = IF moved THEN SwipeUp(dev) ELSE dev
               /\ scroll_count' = scroll_count + 1
               /\ stats' = record_scroll(stats)
               /\ state' = "viewing_results"
               /\ pc' = "check"
               /\ UNCHANGED << report, error_count, caught, loop_exit >>
    /\ UNCHANGED << posts_collected, current_post, start_time, post,
                    current_state, history, visited, last_state, fixed, file, clock,
                    processed, stop_called, visit_click, posts_at_click,
                    errors_at_click, iterations, search, back >>

\* The snapshots the verification loop observes when the device shows d
\* during all of it.
Steady(d) == [k \in 0..max_retries |-> Snapshot(d)]

\* The end of _visit_post without the reset of error_count.
_visit_post_end_keeping_errors(st) ==
    /\ stats' = mark_visited_stats(st)
    /\ visited' = mark_visited([ item_id |-> post.id,
                                 title |-> current_post.title,
                                 author |-> current_post.author ])
    /\ processed' = processed \cup {post.id}
    /\ posts_collected' = Append(posts_collected, current_post)
    /\ UNCHANGED error_count
    /\ state' = "returning_to_results"
    /\ pc' = "returning"

\* _visit_post from the statement behind _read_post_comments to the first
\* assignment of _back_to_results (patrol.py:560-572, 664-666); st is the
\* tracker's statistics when _read_post_comments returns.
_visit_post_end(st) ==
    /\ stats' = mark_visited_stats(st)
    /\ visited' = mark_visited([ item_id |-> post.id,
                                 title |-> current_post.title,
                                 author |-> current_post.author ])
    /\ processed' = processed \cup {post.id}
    /\ posts_collected' = Append(posts_collected, current_post)
    /\ error_count' = 0
    /\ state' = "returning_to_results"
    /\ pc' = "returning"

\* _visit_post after self.state = ENTERING_POST (patrol.py:539-551)
Entering(Oks, Reacts, Raises) ==
    /\ pc = "entering"
    /\ \E raises \in Raises :
          IF raises
          THEN /\ Caught
               /\ UNCHANGED << state, history, visited, stats, last_state, dev,
                               processed, visit_click, posts_at_click,
                               errors_at_click >>
          ELSE \E ok \in Oks, reacts \in Reacts, replies \in BOOLEAN :
               LET after == IF ok /\ reacts THEN TapCard(dev, replies) ELSE dev
                   result == click_and_verify(Snapshot(dev), ok, Steady(after),
                                              Empty, Empty)
               IN  /\ reacts \/ ~replies
                   /\ history' = push_history(history, Snapshot(dev).screen_hash,
                                              "results")
                   /\ dev' = after
                   /\ last_state' = result.last_state
                   /\ visit_click' = result.result
                   /\ posts_at_click' = Len(posts_collected)
                   /\ errors_at_click' = error_count
                   /\ IF result.result = "no_change"
                      THEN /\ visited' = mark_visited([ item_id |-> post.id,
                                                        title |-> post.text ])
                           /\ stats' = mark_visited_stats(stats)
                           /\ processed' = processed \cup {post.id}
                           /\ pc' = "check"
                           /\ UNCHANGED state
                      ELSE /\ state' = "reading_post"
                           /\ pc' = "reading"
                           /\ UNCHANGED << visited, stats, processed >>
                   /\ UNCHANGED << report, error_count, caught, loop_exit >>
    /\ UNCHANGED << posts_collected, current_post, scroll_count, start_time,
                    post, current_state, fixed, file, clock, stop_called, iterations, search, back >>

\* _collect_post_data, then _read_post_comments up to its first assignment
\* (patrol.py:554-558, 574-606)
Reading(Raises) ==
    /\ pc = "reading"
    /\ \E raises \in Raises :
          IF raises
          THEN /\ Caught
               /\ UNCHANGED << state, posts_collected, current_post, visited,
                               stats, last_state, processed >>
          ELSE /\ last_state' = Snapshot(dev)
               /\ current_post' = [ title |-> Take(post.text, 200),
                                    author |-> post.author,
                                    comments |-> 0,
                                    post_id |-> post.id ]
               /\ IF comments_per_post > 0
                  THEN /\ state' = "entering_comments"
                       /\ pc' = "entering_comments"
                       /\ UNCHANGED << posts_collected, error_count, visited,
                                       stats, processed >>
                  ELSE /\ visited' = mark_visited([ item_id |-> post.id,
                                          title |-> current_post'.title,
                                          author |-> current_post'.author ])
                       /\ stats' = mark_visited_stats(stats)
                       /\ processed' = processed \cup {post.id}
                       /\ posts_collected' = Append(posts_collected, current_post')
                       /\ error_count' = 0
                       /\ state' = "returning_to_results"
                       /\ pc' = "returning"
               /\ UNCHANGED << report, caught, loop_exit >>
    /\ UNCHANGED << scroll_count, start_time, post, current_state, history,
                    fixed, file, dev, clock, stop_called, visit_click, posts_at_click,
                    errors_at_click, iterations, search, back >>

\* _read_post_comments: find and click the comments section
\* (patrol.py:608-628); when there is none or the click changes nothing it
\* returns and _visit_post goes on.
EnteringComments(Raises) ==
    /\ pc = "entering_comments"
    /\ \E raises \in Raises :
          IF raises
          THEN /\ Caught
               /\ UNCHANGED << state, posts_collected, visited, stats,
                               last_state, dev, processed, back >>
          ELSE LET seen == Snapshot(dev)
                   comments_el == \/ find_text(seen, << "c", "o", "m", "m", "e", "n", "t" >>)
                                  \/ find_text(seen, << "r", "e", "p", "l" >>)
               IN  IF ~comments_el
                   THEN /\ last_state' = seen
                        /\ _visit_post_end(stats)
                        /\ UNCHANGED << dev, report, caught, loop_exit, back >>
                   ELSE \E ok \in BOOLEAN, reacts \in BOOLEAN :
                        LET after == IF ok /\ reacts THEN TapReplies(dev) ELSE dev
                            result == click_and_verify(seen, ok, Steady(after),
                                                       Empty, Empty)
                        IN  /\ dev' = after
                            /\ last_state' = result.last_state
                            /\ back' = [back EXCEPT
                                           !.comments_click = result.result]
                            /\ IF result.result = "no_change"
                               THEN _visit_post_end(stats)
                               ELSE /\ state' = "reading_comments"
                                    /\ pc' = "reading_comments"
                                    /\ UNCHANGED << posts_collected, error_count,
                                                    visited, stats, processed >>
                            /\ UNCHANGED << report, caught, loop_exit >>
    /\ UNCHANGED << current_post, scroll_count, start_time, post, current_state,
                    history, fixed, file, clock, stop_called, visit_click,
                    posts_at_click, errors_at_click, iterations, search >>

\* _read_post_comments: collect the comments (patrol.py:630-659).  The
\* swipes between the observations go through the router, unverified.
ReadingComments(Raises) ==
    /\ pc = "reading_comments"
    /\ \E raises \in Raises :
          IF raises
          THEN /\ Caught
               /\ UNCHANGED << state, current_post, history, last_state >>
          ELSE /\ last_state' = Snapshot(dev)
               /\ history' = push_history(history, Snapshot(dev).screen_hash,
                                          "post_detail")
               /\ current_post' = [current_post EXCEPT
                                      !.comments = read_comments(Snapshot(dev))]
               /\ state' = "returning_to_post"
               /\ pc' = "returning_to_post"
               /\ UNCHANGED << report, error_count, caught, loop_exit >>
    /\ UNCHANGED << posts_collected, scroll_count, start_time, post,
                    current_state, visited, stats, fixed, file, dev, clock, processed,
                    stop_called, visit_click, posts_at_click, errors_at_click,
                    iterations, search, back >>

\* _read_post_comments: back to the post (patrol.py:660-662), then
\* _visit_post goes on.  The back key goes through the router.
ReturningToPost(Raises) ==
    /\ pc = "returning_to_post"
    /\ \E raises \in Raises :
          IF raises
          THEN /\ Caught
               /\ UNCHANGED << state, posts_collected, history, visited, stats,
                               dev, processed, back >>
          ELSE /\ \E ok \in BOOLEAN : dev' = IF ok THEN Back(dev) ELSE dev
               /\ back' = [back EXCEPT !.comments_back = TRUE]
               /\ history' = pop_history(history)
               /\ _visit_post_end(pop_history_stats(history, stats))
               /\ UNCHANGED << report, caught, loop_exit >>
    /\ UNCHANGED << current_post, scroll_count, start_time, post, current_state,
                    last_state, fixed, file, clock, stop_called, visit_click,
                    posts_at_click, errors_at_click, iterations, search >>

\* _back_to_results with a second back key after every result but SUCCESS.
_back_to_results_unless_success(result) ==
    result.commands \o (IF result.result # "success" THEN << "back" >> ELSE << >>)

\* _back_to_results (patrol.py:668-675): the commands it issues, given the
\* ExecutionResult of back_and_verify.
_back_to_results(result) ==
    result.commands \o (IF result.result = "no_change" THEN << "back" >> ELSE << >>)

\* _back_to_results after self.state = RETURNING_TO_RESULTS
\* (patrol.py:668-678).  After NO_CHANGE the back key is pressed once more
\* through the router, unverified.
Returning(Raises) ==
    /\ pc = "returning"
    /\ \E raises \in Raises :
          IF raises
          THEN /\ Caught
               /\ UNCHANGED << state, history, stats, last_state, dev, back >>
          ELSE \E ok \in BOOLEAN, reacts \in BOOLEAN, again \in BOOLEAN :
               LET after == IF ok /\ reacts THEN Back(dev) ELSE dev
                   result == back_and_verify(last_state, ok, Steady(after), Empty)
               IN  /\ reacts \/ ~again
                   /\ dev' = IF result.result = "no_change" /\ again
                             THEN Back(after) ELSE after
                   /\ last_state' = result.last_state
                   /\ history' = pop_history(history)
                   /\ stats' = pop_history_stats(history, stats)
                   /\ back' = [back EXCEPT
                                  !.result = result.result,
                                  !.commands = _back_to_results(result)]
                   /\ state' = "viewing_results"
                   /\ pc' = "check"
                   /\ UNCHANGED << report, error_count, caught, loop_exit >>
    /\ UNCHANGED << posts_collected, current_post, scroll_count, start_time,
                    post, current_state, visited, fixed, file, clock, processed,
                    stop_called, visit_click, posts_at_click, errors_at_click,
                    iterations, search >>

\* The end of a loop that marks a run that gave up on errors as ERROR.
Complete_as_error ==
    /\ pc = "complete"
    /\ state' = IF loop_exit = "max_consecutive_errors"
                THEN "error" ELSE "completed"
    /\ pc' = "finalize"
    /\ UNCHANGED << report, posts_collected, current_post, scroll_count,
                    error_count, start_time, post, tracker_vars, last_state,
                    fixed, file, dev, clock, ghost_vars >>

\* self.state = PatrolState.COMPLETED at the end of _patrol_loop
\* (patrol.py:457)
Complete ==
    /\ pc = "complete"
    /\ state' = "completed"
    /\ pc' = "finalize"
    /\ UNCHANGED << report, posts_collected, current_post, scroll_count,
                    error_count, start_time, post, tracker_vars, last_state,
                    fixed, file, dev, clock, ghost_vars >>

\* return self._finalize_report() (patrol.py:314)
Finalize ==
    /\ pc = "finalize"
    /\ report' = _finalize_report(report.errors, NoMsg)
    /\ file' = save
    /\ pc' = "done"
    /\ UNCHANGED << state, posts_collected, current_post, scroll_count,
                    error_count, start_time, post, tracker_vars, last_state,
                    fixed, dev, clock, ghost_vars >>

\* stop(), called by another thread while run() executes (patrol.py:749-752)
Stop ==
    /\ pc \notin {"idle", "done"}
    /\ state' = "stopped"
    /\ stop_called' = (stop_called \/ pc \in LoopPcs)
    /\ UNCHANGED << pc, report, posts_collected, current_post, scroll_count,
                    error_count, start_time, post, tracker_vars, last_state,
                    fixed, file, dev, clock, processed, caught, visit_click,
                    posts_at_click, errors_at_click, iterations, search, back,
                    loop_exit >>

\* A minute passes on the wall clock while run() executes.
Tick ==
    /\ pc \notin {"idle", "done"}
    /\ clock - start_time < max_time_minutes
    /\ clock' = clock + 1
    /\ UNCHANGED << patrol_vars, tracker_vars, last_state, fixed, file, dev,
                    ghost_vars >>

Next ==
    \/ Run
    \/ LaunchApp
    \/ Launching
    \/ Finding
    \/ Typing
    \/ Verifying
    \/ Check(TRUE)
    \/ Scan(BOOLEAN)
    \/ Scrolling(BOOLEAN)
    \/ Entering(BOOLEAN, BOOLEAN, BOOLEAN)
    \/ Reading(BOOLEAN)
    \/ EnteringComments(BOOLEAN)
    \/ ReadingComments(BOOLEAN)
    \/ ReturningToPost(BOOLEAN)
    \/ Returning(BOOLEAN)
    \/ Complete
    \/ Finalize
    \/ Stop
    \/ Tick

Spec == Init /\ [][Next]_vars

(***************************************************************************)
(* The patrol on threads with one feed, watched by a thread that calls     *)
(* get_progress() at any moment.  In the loop only the scan raises.        *)
(***************************************************************************)
\* get_progress(), called by another thread (patrol.py:754-764)
GetProgress ==
    /\ progress' = get_progress
    /\ UNCHANGED << patrol_vars, tracker_vars, last_state, state_history, call,
                    calls, platform, feed, dev, clock, ghost_vars, file, tcall,
                    run, marked >>

ProgressInit ==
    /\ Init
    /\ platform = Threads
    /\ feed = << << >>, << CardB >> >>

ProgressNext ==
    \/ Run
    \/ LaunchApp
    \/ Launching
    \/ Finding
    \/ Typing
    \/ Verifying
    \/ Check(TRUE)
    \/ Scan(BOOLEAN)
    \/ Scrolling({FALSE})
    \/ Entering(BOOLEAN, BOOLEAN, {FALSE})
    \/ Reading({FALSE})
    \/ EnteringComments({FALSE})
    \/ ReadingComments({FALSE})
    \/ ReturningToPost({FALSE})
    \/ Returning({FALSE})
    \/ Complete
    \/ Finalize
    \/ Stop
    \/ Tick
    \/ GetProgress

ProgressSpec == ProgressInit /\ [][ProgressNext]_vars

(***************************************************************************)
(* The patrol on a device that accepts every tap on a post card and never  *)
(* reacts to it: every post click returns NO_CHANGE.  Nothing raises in    *)
(* the loop, the clock stands still and stop() is not called.  The thread  *)
(* that executes run() keeps running.                                      *)
(***************************************************************************)
DeadEndNext ==
    \/ Run
    \/ LaunchApp
    \/ Launching
    \/ Finding
    \/ Typing
    \/ Verifying
    \/ Check(FALSE)
    \/ Scan({FALSE})
    \/ Scrolling({FALSE})
    \/ Entering({TRUE}, {FALSE}, {FALSE})
    \/ Complete
    \/ Finalize

DeadEndSpec == Init /\ [][DeadEndNext]_vars /\ WF_vars(DeadEndNext)

(***************************************************************************)
(* Properties of the patrol.                                               *)
(***************************************************************************)
elapsed == clock - start_time

Range(f) == { f[i] : i \in DOMAIN f }

\* C1: no post card is opened twice.  Once _visit_post has processed a card
\* (collected it, or abandoned it after NO_CHANGE), is_visited(item_id=id)
\* is true for the card's id, and the card is never again the one
\* _find_unvisited_post hands to _visit_post.
C1_NoCardOpenedTwice ==
    /\ \A id \in processed : is_visited(id, Empty, Empty, 0)
    /\ pc = "entering" => post.id \notin processed

\* A card that was processed is being visited again.
C1_Reopened == pc = "entering" /\ post.id \in processed

\* C2: with a clock that stands still and finitely many cards on each
\* screen, the patrol loop terminates even when every post click returns
\* NO_CHANGE, so run() returns.
C2_LoopTerminates == <>(pc = "done")

\* C3: len(posts_collected) never exceeds max_posts, and _should_continue
\* is false as soon as it reaches max_posts, whatever the clock, the scroll
\* count, the error count and the state are.
C3_PostBudget ==
    /\ Len(posts_collected) <= max_posts
    /\ Len(posts_collected) >= max_posts => ~_should_continue

\* The post budget is exhausted when nothing else stops the loop.
C3_BudgetReached ==
    /\ pc = "check"
    /\ Len(posts_collected) = max_posts
    /\ elapsed < max_time_minutes
    /\ error_count < max_consecutive_errors
    /\ state = "viewing_results"

\* C4: once stop() has been called while the patrol loop executes, the next
\* evaluation of the continuation check returns false, so no post visit and
\* no scroll is started after the iteration that was in flight.
C4_StopEndsLoop == (stop_called /\ pc = "check") => ~_should_continue

\* stop() was called during the loop and the loop goes on with a new visit.
C4_VisitAfterStop == stop_called /\ pc = "entering" /\ state = "entering_post"

C6_EveryErrorRecorded == pc \in LoopPcs => Len(report.errors) = caught

\* C6, amended: every exception the loop's handler catches increments
\* error_count by one and is not raised again; report.errors gets an entry
\* only for the exception that brings error_count to max_consecutive_errors.
C6_ErrorCounted ==
    [][caught' = caught + 1 =>
          /\ error_count' = error_count + 1
          /\ pc' \in {"check", "complete"}
          /\ Len(report'.errors) = Len(report.errors) +
                (IF error_count' >= max_consecutive_errors THEN 1 ELSE 0)]_vars

\* An exception was caught and left no entry in the report.
C6_CaughtUnrecorded ==
    pc = "check" /\ caught = 1 /\ error_count = 1 /\ report.errors = << >>

\* C7: the continuation check is evaluated before every loop iteration, and
\* it returns false exactly when the post budget or the time budget or the
\* error budget is exhausted or the state is COMPLETED, STOPPED or ERROR.
C7_ContinuationCheck ==
    /\ [](_should_continue <=>
             ~ \/ Len(posts_collected) >= max_posts
               \/ elapsed >= max_time_minutes
               \/ error_count >= max_consecutive_errors
               \/ state \in {"completed", "stopped", "error"})
    /\ [][pc # "scan" /\ pc' = "scan" => pc = "check" /\ _should_continue]_vars

\* The check is made when only the time budget is exhausted.
C7_TimeUp ==
    /\ pc = "check"
    /\ elapsed = max_time_minutes
    /\ Len(posts_collected) < max_posts
    /\ error_count < max_consecutive_errors
    /\ state = "viewing_results"

\* C8: when click_and_verify on a post card returns ERROR, the patrol
\* treats it as a loop error: error_count is incremented and no PostData is
\* appended for the card.
C8_ClickErrorIsLoopError ==
    visit_click = "error" =>
        /\ error_count = errors_at_click + 1
        /\ Len(posts_collected) = posts_at_click

\* The post click returned ERROR and the card was collected all the same.
C8_CollectedAfterError ==
    visit_click = "error" /\ Len(posts_collected) = posts_at_click + 1

(***************************************************************************)
(* The executor alone: a caller makes up to MaxCalls calls on a device     *)
(* whose screens are drawn from Screens.                                   *)
(***************************************************************************)
Like == << "L", "i", "k", "e" >>

ScreenList == from_xml(<< El(<< "p", "1" >>, Empty, Empty, Empty) >>)
ScreenLiked == from_xml(<< El(Empty, Like, Empty, Empty) >>)

\* What an observation can return; ErrorState when the dump failed.
Screens == { ScreenList, ScreenLiked, ErrorState }

\* The texts a caller expects to appear and to be gone; Empty for none.
Appearing == { Empty, << "l", "i", "k", "e" >> }
Gone == { Empty, << "p", "1" >> }

\* What the observations of one call return: obs[0] is what the observe()
\* for the before-snapshot returns, when there is no last_state.
Observations ==
    { obs \in [0..max_retries -> Screens] :
         last_state # NoState => obs[0] = last_state }

ExecInit ==
    /\ Init
    /\ platform = Threads
    /\ feed = << << >>, << >> >>

\* The executor after a call that returned r, and the record of the call.
Called(op, ok, r, expected_text, expected_gone) ==
    /\ calls' = calls + 1
    /\ last_state' = r.last_state
    /\ state_history' = _update_state(state_history, r.observed)
    /\ call' = [ op |-> op, ok |-> ok, result |-> r.result,
                 commands |-> r.commands,
                 had_state |-> last_state # NoState,
                 before_hash |-> r.before_state.screen_hash,
                 reobserved |-> IF last_state = NoState /\ r.observed # << >>
                                THEN Tail(r.observed) ELSE r.observed,
                 expected_text |-> expected_text,
                 expected_gone |-> expected_gone ]
    /\ UNCHANGED << patrol_vars, tracker_vars, platform, feed, dev, clock,
                    ghost_vars, file, tcall, run, marked, progress >>

\* observe() (executor.py:333-362)
Observe ==
    /\ calls < MaxCalls
    /\ \E seen \in Screens :
          Called("observe", TRUE,
                 [ result |-> "none", before_state |-> NoState,
                   commands |-> << "observe" >>, observed |-> << seen >>,
                   last_state |-> seen ],
                 Empty, Empty)

ClickAndVerify ==
    /\ calls < MaxCalls
    /\ \E ok \in BOOLEAN, obs \in Observations,
          expected_text \in Appearing, expected_gone \in Gone :
          Called("tap", ok,
                 click_and_verify(last_state, ok, obs, expected_text, expected_gone),
                 expected_text, expected_gone)

SwipeAndVerify ==
    /\ calls < MaxCalls
    /\ \E size_ok \in BOOLEAN, direction \in {"up", "around"}, ok \in BOOLEAN,
          obs \in Observations :
          Called("swipe", ok,
                 swipe_and_verify(last_state, size_ok, direction, ok, obs),
                 Empty, Empty)

BackAndVerify ==
    /\ calls < MaxCalls
    /\ \E ok \in BOOLEAN, obs \in Observations, expected_text \in Appearing :
          Called("back", ok, back_and_verify(last_state, ok, obs, expected_text),
                 expected_text, Empty)

ExecNext ==
    \/ Observe
    \/ ClickAndVerify
    \/ SwipeAndVerify
    \/ BackAndVerify

ExecSpec == ExecInit /\ [][ExecNext]_vars

\* The position of the input command in the commands of the latest call,
\* 0 when it was not sent.
Sent ==
    LET at == { i \in 1..Len(call.commands) : call.commands[i] = call.op }
    IN  IF at = {} THEN 0 ELSE CHOOSE i \in at : \A j \in at : i <= j

\* C9: when the tap, swipe or back command reports failure, click_and_verify,
\* swipe_and_verify and back_and_verify return ERROR at once: the command is
\* not sent again and no observation is made after it.
C9_CommandFailureIsError ==
    (call.op \in {"tap", "swipe", "back"} /\ Sent > 0 /\ ~call.ok) =>
        /\ call.result = "error"
        /\ \A i \in (Sent + 1)..Len(call.commands) :
              call.commands[i] \notin {call.op, "observe"}
        /\ call.reobserved = << >>

\* A swipe was sent and reported failure.
C9_SwipeFailed ==
    call.op = "swipe" /\ Sent > 0 /\ ~call.ok /\ call.result = "error"

\* C10: click_and_verify returns SUCCESS exactly when the tap succeeded and
\* one of the at most max_retries observations made after it has a hash
\* different from the before-hash, contains expected_text when one is given
\* and does not contain expected_gone when one is given.
C10_ClickSuccess ==
    call.op = "tap" =>
        /\ Len(call.reobserved) <= max_retries
        /\ call.result = "success" <=>
              /\ call.ok
              /\ \E i \in 1..Len(call.reobserved) :
                    /\ call.reobserved[i].screen_hash # call.before_hash
                    /\ call.expected_text # Empty =>
                          has_text(call.reobserved[i], call.expected_text)
                    /\ call.expected_gone # Empty =>
                          ~has_text(call.reobserved[i], call.expected_gone)

\* A click succeeded at its last observation, both expectations given.
C10_VerifiedAtLastRetry ==
    /\ call.op = "tap"
    /\ call.result = "success"
    /\ Len(call.reobserved) = max_retries
    /\ call.expected_text # Empty
    /\ call.expected_gone # Empty

\* C11: click_and_verify returns NO_CHANGE only when the hash of no
\* observation made after the tap differed from the before-hash.
C11_NoChangeMeansSameHash ==
    (call.op = "tap" /\ call.result = "no_change") =>
        \A i \in 1..Len(call.reobserved) :
           call.reobserved[i].screen_hash = call.before_hash

\* A click returned NO_CHANGE although every observation made after the tap
\* had a hash different from the before-hash.
C11_ChangedButNoChange ==
    /\ call.op = "tap"
    /\ call.result = "no_change"
    /\ Len(call.reobserved) = max_retries
    /\ \A i \in 1..Len(call.reobserved) :
          call.reobserved[i].screen_hash # call.before_hash

\* C12: in every call of click_and_verify, swipe_and_verify and
\* back_and_verify that issues its input command, a snapshot was there before
\* the command (the last snapshot, or one observed by the call), and when the
\* command succeeds an observation is made after it before the call returns.
C12_ObservedAroundCommand ==
    (call.op \in {"tap", "swipe", "back"} /\ Sent > 0) =>
        /\ call.before_hash # << "none" >>
        /\ \/ call.had_state
           \/ \E i \in 1..(Sent - 1) : call.commands[i] = "observe"
        /\ call.ok =>
              \E i \in (Sent + 1)..Len(call.commands) :
                 call.commands[i] = "observe"

\* A back key was sent by an executor that had no last snapshot, and
\* succeeded.
C12_BackWithoutLastState ==
    /\ call.op = "back"
    /\ Sent > 0
    /\ ~call.had_state
    /\ call.ok

(***************************************************************************)
(* The tracker alone: a caller makes up to MaxTrackerCalls calls on a      *)
(* tracker, constructs a tracker for the same session again, and the       *)
(* session file can be damaged while no tracker writes it.                 *)
(***************************************************************************)
MaxTrackerCalls == 4

\* The keyword arguments of the caller's mark_visited calls.
MarkArgs ==
    { [ title |-> << "a", "|", "b" >>, author |-> << "c" >> ],
      [ title |-> << "a" >>, author |-> << "b", "|", "c" >> ],
      [ title |-> << "a" >>, author |-> << "b", "|", "c" >>, index |-> 1 ],
      [ item_id |-> << "i", "d" >>, title |-> << "a" >> ] }

\* The element lists the caller has detect_state classify.
TrackerScreens ==
    { << El(<< "T", "o", "p" >>, Empty, Empty, Empty),
         El(<< "R", "e", "c", "e", "n", "t" >>, Empty, Empty, Empty) >>,
      << El(<< "p", "1" >>, Empty, Empty, Empty) >> }

\* What no tracker action touches.
tracker_rest == << patrol_vars, last_state, state_history, call, feed, dev,
                   clock, ghost_vars, progress >>

\* mark_visited(**kwargs) (state_tracker.py:406-424)
MarkVisited ==
    /\ calls < MaxTrackerCalls
    /\ calls' = calls + 1
    /\ \E kwargs \in MarkArgs :
          /\ visited' = mark_visited(kwargs)
          /\ stats' = mark_visited_stats(stats)
          /\ tcall' = [ op |-> "mark_visited", args |-> kwargs,
                        value |-> mark_visited_item(kwargs).item_id,
                        depth |-> Len(history) ]
          /\ marked' = marked \cup
                          { [ id |-> mark_visited_item(kwargs).item_id,
                              args |-> kwargs, platform |-> platform,
                              saved |-> FALSE ] }
    /\ UNCHANGED << current_state, history, platform, file, run, tracker_rest >>

\* push_history(screen_hash, data) (state_tracker.py:463-479); the caller
\* numbers the screens it pushes.
Push(phase) ==
    LET screen_hash == << "h" >> \o IntStr(run.count + 1)
        data == [ state |-> "results" ]
        pushed == push_history(history, screen_hash, data)
    IN  /\ history' = pushed
        /\ tcall' = [ op |-> "push_history", args |-> << screen_hash, data >>,
                      value |-> << >>, depth |-> Len(history) ]
        /\ run' = [ pushed |-> (IF run.pops > 0 THEN << >> ELSE run.pushed)
                                  \o << pushed[Len(pushed)] >>,
                    pops |-> 0, phase |-> phase, count |-> run.count + 1 ]
        /\ UNCHANGED << current_state, visited, stats, platform, file, marked,
                        tracker_rest >>

\* pop_history() (state_tracker.py:481-486); None is the empty tuple.
Pop(phase) ==
    /\ history' = pop_history(history)
    /\ stats' = pop_history_stats(history, stats)
    /\ tcall' = [ op |-> "pop_history", args |-> << >>,
                  value |-> IF history # << >> THEN history[Len(history)]
                            ELSE << >>,
                  depth |-> Len(history) ]
    /\ run' = [run EXCEPT !.pops = @ + 1, !.phase = phase]
    /\ UNCHANGED << current_state, visited, platform, file, marked, tracker_rest >>

\* peek_history() (state_tracker.py:488-490)
Peek ==
    /\ tcall' = [ op |-> "peek_history", args |-> << >>,
                  value |-> IF history # << >> THEN history[Len(history)]
                            ELSE << >>,
                  depth |-> Len(history) ]
    /\ UNCHANGED << tracker_vars, platform, file, run, marked, tracker_rest >>

PushHistory ==
    /\ calls < MaxTrackerCalls
    /\ calls' = calls + 1
    /\ Push(run.phase)

PopHistory ==
    /\ calls < MaxTrackerCalls
    /\ calls' = calls + 1
    /\ Pop(run.phase)

PeekHistory ==
    /\ calls < MaxTrackerCalls
    /\ calls' = calls + 1
    /\ Peek

\* record_scroll() (state_tracker.py:501-503)
RecordScroll ==
    /\ calls < MaxTrackerCalls
    /\ calls' = calls + 1
    /\ stats' = record_scroll(stats)
    /\ tcall' = [ op |-> "record_scroll", args |-> << >>, value |-> << >>,
                  depth |-> Len(history) ]
    /\ UNCHANGED << current_state, history, visited, platform, file, run,
                    marked, tracker_rest >>

\* detect_state(elements) (state_tracker.py:297-346)
Detect(screens) ==
    /\ \E elements \in screens :
          LET detected == detect_state(elements)
          IN  /\ current_state' = detected
              /\ tcall' = [ op |-> "detect_state", args |-> elements,
                            value |-> detected, depth |-> Len(history) ]
    /\ UNCHANGED << history, visited, stats, platform, file, run, marked,
                    tracker_rest >>

DetectState ==
    /\ calls < MaxTrackerCalls
    /\ calls' = calls + 1
    /\ Detect(TrackerScreens)

\* save() (state_tracker.py:522-545)
Save ==
    /\ calls < MaxTrackerCalls
    /\ calls' = calls + 1
    /\ file' = save
    /\ tcall' = [ op |-> "save", args |-> << >>, value |-> << >>,
                  depth |-> Len(history) ]
    /\ marked' = { [m EXCEPT !.saved = TRUE] : m \in marked }
    /\ UNCHANGED << tracker_vars, platform, run, tracker_rest >>

\* StateTracker(platform, session_id) for the session id of the file
\* (state_tracker.py:251-287): a new tracker, which loads the file when
\* there is one.  The caller keeps the ids of the items it had saved.
Construct ==
    /\ calls < MaxTrackerCalls
    /\ calls' = calls + 1
    /\ \E platform_arg \in Platforms,
          kept \in IF file.kind = "json"
                      /\ \E k \in DOMAIN file.visited : bad_item(file.visited[k])
                   THEN SUBSET { k \in DOMAIN file.visited : ~bad_item(file.visited[k]) }
                   ELSE { {} } :
          LET t == load(fresh(platform_arg), file, kept)
          IN  /\ platform' = t.platform
              /\ current_state' = t.current_state
              /\ visited' = t.visited
              /\ history' = t.history
              /\ stats' = t.stats
              /\ tcall' = [ op |-> "construct", args |-> platform_arg,
                            value |-> IF t.loaded THEN "loaded"
                                      ELSE IF corrupt(file) THEN "raised"
                                      ELSE "new",
                            depth |-> 0 ]
              /\ marked' = IF t.loaded THEN { m \in marked : m.saved } ELSE {}
    /\ run' = [NoRun EXCEPT !.count = run.count]
    /\ UNCHANGED << file, tracker_rest >>

\* What a damaged copy of the document f can be: no JSON at all, a state
\* name that is none, an item without its id, a history entry with a state
\* name that is none.
Corruptions(f) ==
    { Unparseable, [f EXCEPT !.current_state = "bogus"] }
    \cup { [f EXCEPT !.visited[k] =
                [key \in DOMAIN f.visited[k] \ {"item_id"} |-> f.visited[k][key]]] :
             k \in DOMAIN f.visited }
    \cup { [f EXCEPT !.history[i].state = "bogus"] : i \in 1..Len(f.history) }

\* The session file is damaged while no tracker is writing it.
Corrupt ==
    /\ file.kind = "json"
    /\ ~corrupt(file)
    /\ file' \in Corruptions(file)
    /\ UNCHANGED << tracker_vars, platform, tcall, run, marked, calls,
                    tracker_rest >>

TrackerInit ==
    /\ Init
    /\ feed = << << >>, << >> >>

TrackerNext ==
    \/ MarkVisited
    \/ PushHistory
    \/ PopHistory
    \/ PeekHistory
    \/ RecordScroll
    \/ DetectState
    \/ Save
    \/ Construct
    \/ Corrupt

TrackerSpec == TrackerInit /\ [][TrackerNext]_vars

(***************************************************************************)
(* The history stack alone: a caller pushes up to MaxPushes screens, pops  *)
(* some of them and pushes again, and peeks in between.                    *)
(***************************************************************************)
MaxPushes == 52

Pushing ==
    /\ run.phase = "push"
    /\ run.count < MaxPushes
    /\ Push("push")
    /\ UNCHANGED calls

Popping ==
    /\ run.phase \in {"push", "pop"}
    /\ run.pops < Len(run.pushed)
    /\ Pop("pop")
    /\ UNCHANGED calls

PushingAgain ==
    /\ run.phase \in {"pop", "again"}
    /\ run.count < MaxPushes
    /\ Push("again")
    /\ UNCHANGED calls

Peeking ==
    /\ Peek
    /\ UNCHANGED calls

HistoryInit ==
    /\ TrackerInit
    /\ platform = Threads

HistoryNext ==
    \/ Pushing
    \/ Popping
    \/ PushingAgain
    \/ Peeking

HistorySpec == HistoryInit /\ [][HistoryNext]_vars

\* C13: an item mark_visited recorded stays visited: is_visited of the id
\* mark_visited returned, and is_visited of the fields it was recorded by,
\* are true after every later call of the tracker, and in a tracker
\* constructed for the session after save().
C13_VisitedStays ==
    \A m \in marked :
        /\ is_visited(m.id, Empty, Empty, 0)
        /\ is_visited(Empty, Arg(m.args, "title", Empty),
                      Arg(m.args, "author", Empty), Arg(m.args, "index", 0))

\* A tracker constructed with another platform argument loaded the session
\* of an item that was recorded at index 1.
C13_ReloadedItem ==
    /\ tcall.op = "construct"
    /\ tcall.value = "loaded"
    /\ tcall.args # platform
    /\ \E m \in marked : Arg(m.args, "index", 0) = 1

\* C14: after N push_history calls, the M-th of the pop_history calls that
\* follow returns the M-th last entry pushed, for every M <= N; and
\* peek_history returns the top entry and leaves the depth as it was.
C14_PopsReversePushes ==
    /\ (tcall.op = "pop_history" /\ run.pops >= 1 /\ run.pops <= Len(run.pushed)) =>
           tcall.value = run.pushed[Len(run.pushed) - run.pops + 1]
    /\ tcall.op = "peek_history" =>
           /\ Len(history) = tcall.depth
           /\ tcall.value = IF history = << >> THEN << >>
                             ELSE history[Len(history)]

\* C14 as amended: the same for every M that is at most N and at most the
\* history limit of 50.
C14_PopsWithinLimit ==
    /\ (tcall.op = "pop_history" /\ run.pops >= 1
           /\ run.pops <= Min(Len(run.pushed), HistoryLimit)) =>
           tcall.value = run.pushed[Len(run.pushed) - run.pops + 1]
    /\ tcall.op = "peek_history" =>
           /\ Len(history) = tcall.depth
           /\ tcall.value = IF history = << >> THEN << >>
                             ELSE history[Len(history)]

\* More than 50 entries were pushed and the 50th pop has returned.
C14_PoppedToTheLimit ==
    /\ tcall.op = "pop_history"
    /\ run.pops = HistoryLimit
    /\ Len(run.pushed) > HistoryLimit

\* C15: the history never holds more than 50 entries, and a push onto a
\* history of 50 drops the oldest entry and nothing else: the 49 newer
\* entries stay in their order and the pushed entry comes last.
C15_HistoryBounded ==
    [][ /\ Len(history') <= HistoryLimit
        /\ (run'.count = run.count + 1 /\ Len(history) = HistoryLimit) =>
              /\ Len(history') = HistoryLimit
              /\ \A i \in 1..(HistoryLimit - 1) : history'[i] = history[i + 1]
              /\ history'[HistoryLimit].screen_hash = tcall'.args[1] ]_vars

\* An entry was pushed onto a full history.
C15_PushedOntoFull ==
    /\ tcall.op = "push_history"
    /\ tcall.depth = HistoryLimit
    /\ Len(history) = HistoryLimit

\* C16: a tracker constructed for the session right after save() has the
\* visited map, the history stack and the current_state of the tracker that
\* saved.
C16_SaveLoadRoundTrip ==
    [][ (tcall.op = "save" /\ file = save /\ tcall'.op = "construct") =>
           /\ visited' = visited
           /\ history' = history
           /\ current_state' = current_state ]_vars

\* A tracker was constructed from a session with a visited item, a history
\* entry and a state.
C16_Reloaded ==
    /\ tcall.op = "construct"
    /\ tcall.value = "loaded"
    /\ DOMAIN visited # {}
    /\ \/ history # << >>
       \/ current_state # "unknown"

\* C17: a tracker constructed while the session file is corrupt is in the
\* fresh state: current_state UNKNOWN, nothing visited, empty history.
C17_CorruptFileLeavesFresh ==
    (tcall.op = "construct" /\ tcall.value = "raised") =>
        /\ current_state = "unknown"
        /\ DOMAIN visited = {}
        /\ history = << >>

\* A tracker constructed from a file with a bad history entry holds the
\* entries in front of it.
C17_PartlyLoaded ==
    /\ tcall.op = "construct"
    /\ tcall.value = "raised"
    /\ history # << >>

\* The fields an item was recorded by.
Fields(m) ==
    << Arg(m.args, "title", Empty), Arg(m.args, "author", Empty),
       Arg(m.args, "index", 0), m.platform >>

\* C19: the id of an item is a function of (title, author, index, platform),
\* and two items that differ in one of the four have different ids.
C19_IdsDistinguish ==
    \A m1, m2 \in marked :
        /\ Fields(m1) = Fields(m2) => m1.id = m2.id
        /\ Fields(m1) # Fields(m2) => m1.id # m2.id

\* Two items with different titles and authors got the same id.
C19_Collision ==
    \E m1, m2 \in marked :
        /\ Fields(m1)[1] # Fields(m2)[1]
        /\ Fields(m1)[2] # Fields(m2)[2]
        /\ m1.id = m2.id

(***************************************************************************)
(* detect_state alone: a caller has a tracker of either platform classify  *)
(* the screens of up to MaxElements elements of DetectElements.            *)
(***************************************************************************)
MaxElements == 2

DetectElements ==
    { El(<< "T", "o", "p" >>, Empty, Empty, Empty),
      El(<< "R", "e", "c", "e", "n", "t" >>, Empty, Empty, Empty),
      El(<< "T", "o", "p", " ", "R", "e", "c", "e", "n", "t" >>, Empty, Empty, Empty),
      El(<< "S", "e", "a", "r", "c", "h" >>, Empty, Empty, Empty),
      El(<< "L", "i", "k", "e", "s" >>, Empty, Empty, Empty),
      El(<< "A", "l", "l" >>, Empty, Empty, Empty),
      El(Empty, << "L", "o", "g", " ", "i", "n" >>,
         << "E", "d", "i", "t", "T", "e", "x", "t" >>, << "F", "e", "e", "d" >>),
      El(<< "p", "1" >>, Empty, Empty, Empty) }

DetectScreens ==
    UNION { [1..n -> DetectElements] : n \in 0..MaxElements }

Detecting ==
    /\ tcall.op = "none"
    /\ Detect(DetectScreens)
    /\ UNCHANGED calls

DetectSpec == TrackerInit /\ [][Detecting]_vars

\* The strings of a list in lower case.
LowerAll(list) == [k \in 1..Len(list) |-> Lower(list[k])]

\* The score the claim gives a signal on the elements of a screen.
ClaimedScore(signal, elements) ==
    LET hit(wanted, seen) ==
            Cardinality({ k \in 1..Len(wanted) : \E t \in seen : In(wanted[k], t) })
        texts == element_texts(elements)
        score == 2 * hit(LowerAll(signal.texts), texts)
                 + hit(signal.element_types, element_types(elements))
                 + 2 * hit(LowerAll(signal.identifiers), element_ids(elements))
                 - 3 * hit(LowerAll(signal.exclude_texts), texts)
    IN  IF score < 0 THEN 0 ELSE score

\* C18: detect_state returns, and stores as current_state, the candidate
\* with the highest score: +2 for each signal text, +1 for each element
\* type and +2 for each identifier that matches, -3 for each exclusion text
\* that matches, and not below 0.  Of the candidates with the highest score
\* the first in the order of iteration wins, the state is UNKNOWN exactly
\* when every candidate scores 0, and the candidate of a state is the
\* platform's signal when the platform has one for it, the default's
\* otherwise.
C18_HighestScoreWins ==
    tcall.op = "detect_state" =>
        LET plat == platform_signals(platform)
            dflt == STATE_SIGNALS.default
            states == { plat[i][1] : i \in 1..Len(plat) }
                      \cup { dflt[i][1] : i \in 1..Len(dflt) }
            signal(st) ==
                IF \E i \in 1..Len(plat) : plat[i][1] = st
                THEN plat[CHOOSE i \in 1..Len(plat) : plat[i][1] = st][2]
                ELSE dflt[CHOOSE i \in 1..Len(dflt) : dflt[i][1] = st][2]
            score(st) == ClaimedScore(signal(st), tcall.args)
            order == merged_signals(platform)
            pos(st) == CHOOSE i \in 1..Len(order) : order[i][1] = st
        IN  /\ current_state = tcall.value
            /\ { order[i][1] : i \in 1..Len(order) } = states
            /\ (tcall.value = "unknown") <=> (\A st \in states : score(st) = 0)
            /\ tcall.value # "unknown" =>
                  /\ tcall.value \in states
                  /\ \A st \in states :
                        \/ score(st) < score(tcall.value)
                        \/ /\ score(st) = score(tcall.value)
                           /\ pos(tcall.value) <= pos(st)

\* On threads a screen with the texts Top and Recent and nothing of a
\* search input was classified as SEARCH_RESULTS.
C18_TopAndRecent ==
    /\ tcall.op = "detect_state"
    /\ platform = Threads
    /\ tcall.args = << El(<< "T", "o", "p" >>, Empty, Empty, Empty),
                       El(<< "R", "e", "c", "e", "n", "t" >>, Empty, Empty, Empty) >>
    /\ tcall.value = "search_results"

(***************************************************************************)
(* observe() alone: a caller observes up to MaxObserves screens, through   *)
(* the MCP callback when one is set and through the uiautomator dump       *)
(* otherwise.                                                              *)
(***************************************************************************)
MaxObserves == 2

Node == El(<< "p", "1" >>, Empty, << "V", "i", "e", "w" >>, << "i", "d" >>)

\* The element lists the device can show.
Dumps ==
    { << >>,
      << Node >>,
      << [Node EXCEPT !.text = << "p", "2" >>] >>,
      << [Node EXCEPT !.element_type = << "T", "e", "x", "t" >>] >>,
      << [Node EXCEPT !.identifier = << "i", "d", "2" >>] >>,
      << [Node EXCEPT !.bounds = << 0, 0, 10, 10 >>] >>,
      << Node, Node >>,
      << Node, [Node EXCEPT !.bounds = << 0, 10, 0, 0 >>] >> }

\* observe(use_mcp=True) (executor.py:333-362).  With a callback that
\* returns elements the snapshot is built by from_elements; with none, or
\* when it returns no element, by from_xml of the uiautomator dump.
ObserveScreen ==
    /\ calls < MaxObserves
    /\ \E callback \in BOOLEAN, elements \in Dumps :
          LET via_mcp == callback /\ elements # << >>
              seen == IF via_mcp THEN from_elements(elements)
                      ELSE from_xml(elements)
          IN  Called("observe", TRUE,
                     [ result |-> "none", before_state |-> NoState,
                       commands |-> (IF callback THEN << "mcp_callback" >>
                                     ELSE << >>)
                                    \o (IF via_mcp THEN << >>
                                        ELSE << "uiautomator_dump" >>),
                       observed |-> << seen >>, last_state |-> seen ],
                     Empty, Empty)

ObserveSpec == ExecInit /\ [][ObserveScreen]_vars

\* The element lists a and b differ in the text, type, identifier or bounds
\* of one element and in nothing else.
OneChanged(a, b) ==
    /\ Len(a) = Len(b)
    /\ \E i \in 1..Len(a) :
          /\ \/ a[i].text # b[i].text
             \/ a[i].element_type # b[i].element_type
             \/ a[i].identifier # b[i].identifier
             \/ a[i].bounds # b[i].bounds
          /\ \A j \in 1..Len(a) : j # i => a[j] = b[j]

\* C20: of two snapshots built by the same constructor, those of the same
\* elements have the same hash, and those that differ in the text, type,
\* identifier or bounds of one element have different hashes.
C20_HashTellsScreensApart ==
    [][ (call.op = "observe" /\ call'.op = "observe" /\ calls' = calls + 1
           /\ call'.commands = call.commands) =>
          /\ last_state'.elements = last_state.elements =>
                last_state'.screen_hash = last_state.screen_hash
          /\ OneChanged(last_state.elements, last_state'.elements) =>
                last_state'.screen_hash # last_state.screen_hash ]_vars

\* Two snapshots of the uiautomator dump that differ in the bounds of an
\* element have the same hash.
C20_BoundsChangeUnseen ==
    /\ Len(state_history) = 2
    /\ call.commands = << "uiautomator_dump" >>
    /\ OneChanged(state_history[1].elements, state_history[2].elements)
    /\ state_history[1].screen_hash = state_history[2].screen_hash

(***************************************************************************)
(* Properties of get_progress().                                           *)
(***************************************************************************)
\* C21: get_progress() changes no field of the machine, of its tracker or of
\* its report, and what it returns is the machine at that moment:
\* posts_collected is the length of the collected list, scrolls is
\* scroll_count, errors is error_count and state is the value of the
\* current state.
C21_ProgressReadsOnly ==
    [][progress' # progress =>
          /\ UNCHANGED << patrol_vars, tracker_vars >>
          /\ progress'.posts_collected = Len(posts_collected')
          /\ progress'.scrolls = scroll_count'
          /\ progress'.errors = error_count'
          /\ progress'.state = state'
          /\ progress'.state \in PatrolState]_vars

\* get_progress() has returned in the middle of a visit, with a post
\* collected before and a scroll made.
C21_AskedDuringVisit ==
    /\ progress.state = "reading_post"
    /\ progress.posts_collected = 1
    /\ progress.scrolls = 1
    /\ pc = "reading"

(***************************************************************************)
(* find_element alone: a caller observes screens of up to two elements and *)
(* looks for elements in the latest snapshot, MaxFinds calls in all.       *)
(***************************************************************************)
MaxFinds == 2

Go == El(<< "G", "o" >>, Empty, << "B", "t" >>, << "i", "d", "/", "g" >>)
GoOn == [ El(<< "g", "o", " ", "o", "n" >>, Empty, << "E", "d" >>, Empty)
             EXCEPT !.clickable = FALSE ]

FindScreens ==
    { from_xml(<< >>), from_xml(<< Go >>), from_xml(<< Go, GoOn >>),
      from_xml(<< GoOn, Go >>), ErrorState }

\* The keyword arguments of the find_element calls.
FindCriteria ==
    [ text : { Empty, << "G", "O" >>, << "o", "n" >> },
      text_exact : { Empty, << "G", "o" >> },
      type : { Empty, << "e", "d" >> },
      clickable : { Empty, << TRUE >>, << FALSE >> } ]

\* observe() (executor.py:333-362)
Looking ==
    /\ calls < MaxFinds
    /\ \E seen \in FindScreens :
          Called("observe", TRUE,
                 [ result |-> "none", before_state |-> NoState,
                   commands |-> << "observe" >>, observed |-> << seen >>,
                   last_state |-> seen ],
                 Empty, Empty)

\* find_element(**criteria) (executor.py:489-511), without a state argument
FindElement ==
    /\ calls < MaxFinds
    /\ \E criteria \in FindCriteria :
          call' = [ op |-> "find", criteria |-> criteria,
                    value |-> find_element(NoState, last_state, criteria) ]
    /\ calls' = calls + 1
    /\ UNCHANGED << patrol_vars, tracker_vars, last_state, state_history,
                    platform, feed, dev, clock, ghost_vars, file, tcall, run,
                    marked, progress >>

FindNext ==
    \/ Looking
    \/ FindElement

FindSpec == ExecInit /\ [][FindNext]_vars

\* The element satisfies every criterion that is supplied (not None).
Satisfies(el, criteria) ==
    /\ criteria.text # Empty => In(Lower(criteria.text), Lower(el.text))
    /\ criteria.text_exact # Empty => el.text = criteria.text_exact
    /\ criteria.type # Empty => In(Lower(criteria.type), Lower(el.element_type))
    /\ criteria.clickable # Empty => el.clickable = criteria.clickable[1]

\* C22: find on the executor returns none when no snapshot has been observed
\* yet; otherwise it returns the first element of the most recent snapshot,
\* in capture order, that satisfies every supplied criterion (criteria that
\* are None are ignored), or none when no element does.
C22_FindFirstMatch ==
    call.op = "find" =>
        IF state_history = << >>
        THEN call.value = Empty
        ELSE LET latest == state_history[Len(state_history)]
                 hits == { i \in 1..Len(latest.elements) :
                              Satisfies(latest.elements[i], call.criteria) }
             IN  IF hits = {} THEN call.value = Empty
                 ELSE \E i \in hits : /\ \A j \in hits : i <= j
                                      /\ call.value = latest.elements[i]

\* Two elements of the latest snapshot satisfy the criterion supplied and
\* the one captured first is returned.
C22_FirstOfTwo ==
    /\ call.op = "find"
    /\ call.criteria.text = << "G", "O" >>
    /\ call.criteria.text_exact = Empty
    /\ call.criteria.type = Empty
    /\ call.criteria.clickable = Empty
    /\ last_state = from_xml(<< GoOn, Go >>)
    /\ call.value = GoOn

(***************************************************************************)
(* Properties of the navigation of the patrol.                             *)
(***************************************************************************)
\* The back keys among the commands.
Presses(commands) ==
    Cardinality({ i \in 1..Len(commands) : commands[i] = "back" })

\* C23: in _back_to_results a second back key is issued if and only if
\* back_and_verify returned NO_CHANGE, so at most two are issued; after
\* SUCCESS, NO_CHANGE and ERROR alike exactly one history entry is popped
\* when the stack is not empty, and the state becomes VIEWING_RESULTS.
C23_BackToResults ==
    [][(pc = "returning" /\ pc' # "returning" /\ caught' = caught) =>
          /\ back'.result \in {"success", "no_change", "error"}
          /\ Presses(back'.commands) =
                IF back'.result = "no_change" THEN 2 ELSE 1
          /\ history # << >> =>
                history' = SubSeq(history, 1, Len(history) - 1)
          /\ history = << >> => history' = << >>
          /\ state' = "viewing_results"]_vars

\* _back_to_results has pressed back twice after NO_CHANGE and popped the
\* entry of the visit.
C23_PressedTwice ==
    /\ pc = "check"
    /\ back.result = "no_change"
    /\ Presses(back.commands) = 2
    /\ history = << >>
    /\ state = "viewing_results"

\* C24: the depth of the history reflects the nesting of the navigation:
\* every entry pushed during a post visit is popped before the visit ends,
\* so at the start of every loop iteration the history is as deep as it was
\* when the loop began.  The tracker of a run starts with an empty history
\* and nothing is pushed before the loop.
C24_HistoryDepthRestored == pc = "check" => Len(history) = 0

\* The visit of a card whose click changed nothing has ended and the entry
\* it pushed is still on the stack.
C24_EntryLeftBehind ==
    /\ pc = "check"
    /\ visit_click = "no_change"
    /\ caught = 0
    /\ Len(history) = 1

\* C25: _do_search makes at most 3 attempts to locate the search entry or
\* input through the adapter, and the hardcoded fallback tap (threads only)
\* is issued only after the adapter has yielded nothing in all of those
\* attempts.
C25_FallbackIsLastResort ==
    /\ search.attempts <= search_attempts
    /\ search.fallback =>
          /\ platform = Threads
          /\ search.attempts = search_attempts
          /\ \A k \in 1..search.attempts : ~search.yielded[k]

\* The hardcoded position was tapped in the first attempt, after the
\* adapter had found an element whose click failed.
C25_FallbackInFirstAttempt ==
    /\ pc = "typing"
    /\ search.fallback
    /\ search.attempts = 1
    /\ search.yielded[1]

\* C26: scroll_count never exceeds max_scrolls: a results scroll is
\* performed only when scroll_count < max_scrolls, and when the scan finds
\* no card or only visited cards and scroll_count has reached max_scrolls
\* the loop exits without scrolling.
C26_ScrollBudget ==
    /\ [](scroll_count <= max_scrolls)
    /\ [][scroll_count' # scroll_count =>
             /\ scroll_count < max_scrolls
             /\ scroll_count' = scroll_count + 1
             /\ pc = "scrolling"]_vars
    /\ [][(pc = "scan" /\ pc' \notin {"scan", "entering"} /\ caught' = caught) =>
             IF scroll_count < max_scrolls
             THEN pc' = "scrolling"
             ELSE pc' = "complete" /\ scroll_count' = scroll_count]_vars

\* The scan found nothing to visit with the scroll budget used up, and the
\* loop has ended.
C26_NothingLeft ==
    /\ pc = "complete"
    /\ loop_exit = "max_scrolls"
    /\ scroll_count = max_scrolls

\* The budgets whose exhaustion ends the loop.
Budgets ==
    { "max_posts", "max_scrolls", "max_time_minutes", "max_consecutive_errors" }

\* C27 as stated: when the loop ends because a budget is exhausted (the post
\* budget, nothing left with the scroll budget used up, the time budget,
\* the error budget), the final state of the run is COMPLETED and never
\* ERROR.
C27_BudgetEndsCompleted ==
    (pc = "done" /\ loop_exit \in Budgets) => state = "completed"

\* C27, amended: when the loop ends because a budget is exhausted the state
\* is set to COMPLETED as the loop is left, and only stop() changes it
\* before run() returns: the final state is COMPLETED, or STOPPED when
\* stop() was called after the loop had ended, and never ERROR.
C27_BudgetEndsCompletedOrStopped ==
    /\ []((pc \in {"finalize", "done"} /\ loop_exit \in Budgets) =>
             state \in {"completed", "stopped"})
    /\ [][(pc = "complete" /\ pc' # "complete") => state' = "completed"]_vars
    /\ [][(pc \in {"finalize", "done"} /\ loop_exit \in Budgets
                                        /\ state' # state) =>
             /\ state = "completed"
             /\ state' = "stopped"
             /\ pc' = pc]_vars

\* run() has returned COMPLETED after the loop gave up on errors.
C27_GaveUpCompleted ==
    /\ pc = "done"
    /\ loop_exit = "max_consecutive_errors"
    /\ "Too many errors" \in Range(report.errors)
    /\ state = "completed"

\* The edges of the documented progression of the states.
Edges ==
    { << "init", "launching_app" >>,
      << "launching_app", "finding_search" >>,
      << "finding_search", "typing_query" >>,
      << "typing_query", "viewing_results" >>,
      << "viewing_results", "entering_post" >>,
      << "entering_post", "reading_post" >>,
      << "reading_post", "entering_comments" >>,
      << "entering_comments", "reading_comments" >>,
      << "reading_comments", "returning_to_post" >>,
      << "returning_to_post", "returning_to_results" >>,
      << "returning_to_results", "viewing_results" >>,
      << "viewing_results", "scrolling_results" >>,
      << "scrolling_results", "viewing_results" >>,
      << "viewing_results", "completed" >> }

\* C28: during run() every change of the state follows an edge of the
\* documented progression: INIT to LAUNCHING_APP to FINDING_SEARCH to
\* TYPING_QUERY to VIEWING_RESULTS; VIEWING_RESULTS to ENTERING_POST to
\* READING_POST to ENTERING_COMMENTS to READING_COMMENTS to
\* RETURNING_TO_POST to RETURNING_TO_RESULTS to VIEWING_RESULTS;
\* VIEWING_RESULTS to SCROLLING_RESULTS and back; VIEWING_RESULTS to
\* COMPLETED; and any state to STOPPED or ERROR.
C28_DocumentedEdges ==
    [][state' # state =>
          \/ << state, state' >> \in Edges
          \/ state' \in {"stopped", "error"}]_vars

\* _back_to_results has set RETURNING_TO_RESULTS on a post whose comments
\* were never opened, so straight from ENTERING_COMMENTS; nothing was
\* raised and stop() was not called.
C28_CommentsSkipped ==
    /\ pc = "returning"
    /\ state = "returning_to_results"
    /\ stats.back_navigations = 0
    /\ caught = 0
    /\ ~stop_called

\* C29: error_count counts consecutive loop errors: it is set to 0 exactly
\* when a post is appended to posts_collected, and otherwise only
\* incremented by one for each exception caught in the loop body; scrolls
\* and dead-end visits (NO_CHANGE) leave it unchanged.
C29_ConsecutiveErrors ==
    /\ [][posts_collected' # posts_collected =>
             /\ posts_collected' = Append(posts_collected, current_post')
             /\ error_count' = 0]_vars
    /\ [][caught' = caught + 1 => error_count' = error_count + 1]_vars
    /\ [][error_count' # error_count =>
             \/ /\ error_count' = 0
                /\ Len(posts_collected') = Len(posts_collected) + 1
             \/ /\ error_count' = error_count + 1
                /\ caught' = caught + 1]_vars
    /\ [][(scroll_count' # scroll_count \/
           (pc = "entering" /\ visit_click' = "no_change" /\ caught' = caught)) =>
             error_count' = error_count]_vars

\* A post has been appended after one caught exception and error_count is
\* back at 0.
C29_ResetAfterError ==
    /\ pc = "returning"
    /\ caught = 1
    /\ error_count = 0
    /\ Len(posts_collected) = 1

(***************************************************************************)
(* A long run of observe() calls: the k-th call sees a screen whose only   *)
(* element carries the number k.  set_mcp_callback is called at some point *)
(* of the run or never; from then on the snapshots come from the callback. *)
(***************************************************************************)
MaxSnapshots == 22

\* The elements of the screen the k-th observe() sees.
Numbered(k) == << El(IntStr(k), Empty, << "V", "i", "e", "w" >>, << "i", "d" >>) >>

\* observe() (executor.py:333-362) on the next screen
ObserveNext ==
    /\ calls < MaxSnapshots
    /\ \E callback \in BOOLEAN :
          LET seen == IF callback THEN from_elements(Numbered(calls + 1))
                      ELSE from_xml(Numbered(calls + 1))
          IN  /\ call.commands = << "mcp_callback" >> => callback
              /\ Called("observe", TRUE,
                        [ result |-> "none", before_state |-> NoState,
                          commands |-> IF callback THEN << "mcp_callback" >>
                                       ELSE << "uiautomator_dump" >>,
                          observed |-> << seen >>, last_state |-> seen ],
                        Empty, Empty)

RollingSpec == ExecInit /\ [][ObserveNext]_vars

\* C30: after any sequence of observe() calls, state_history holds at most
\* the 20 most recent snapshots, in capture order, and last_state is the
\* snapshot the latest observe() returned, whichever source produced it.
C30_RollingHistory ==
    /\ Len(state_history) = Min(calls, StateHistoryLimit)
    /\ \A i \in 1..Len(state_history) :
          LET k == calls - Len(state_history) + i
          IN  /\ state_history[i].elements = Numbered(k)
              /\ state_history[i] \in { from_elements(Numbered(k)),
                                        from_xml(Numbered(k)) }
    /\ calls > 0 =>
          /\ last_state = state_history[Len(state_history)]
          /\ last_state = IF call.commands = << "mcp_callback" >>
                          THEN from_elements(Numbered(calls))
                          ELSE from_xml(Numbered(calls))

\* More than 20 screens were observed, the oldest snapshot kept came from
\* the uiautomator dump and the latest from the MCP callback.
C30_RolledOver ==
    /\ calls > StateHistoryLimit
    /\ Len(state_history) = StateHistoryLimit
    /\ state_history[1] = from_xml(Numbered(calls - StateHistoryLimit + 1))
    /\ call.commands = << "mcp_callback" >>

(***************************************************************************)
(* The executor with debug capture enabled, on a device where the capture  *)
(* of the artifacts (screenshot, element dump, info file) can fail.        *)
(***************************************************************************)
\* save_debug_on_failure, the default of the constructor (executor.py:289)
save_debug_on_failure == TRUE

\* A capture whose failure reaches the caller as an ERROR result.
with_capture_raising(r, enabled, fails) ==
    LET attempted == \E i \in 1..Len(r.commands) : r.commands[i] = "save_debug"
    IN  [ result |-> IF attempted /\ enabled /\ fails THEN "error" ELSE r.result,
          raised |-> attempted /\ enabled /\ fails,
          capture |-> IF ~attempted THEN "none"
                      ELSE IF ~enabled THEN "skipped"
                      ELSE IF fails THEN "logged" ELSE "saved" ]

\* _save_debug_artifacts (executor.py:404-483) inside a call whose
\* ExecutionResult is r: nothing is done when the flag is off, and the whole
\* capture stands in try/except Exception, a failure is logged.
with_capture(r, enabled, fails) ==
    LET attempted == \E i \in 1..Len(r.commands) : r.commands[i] = "save_debug"
    IN  [ result |-> r.result,
          raised |-> FALSE,
          capture |-> IF ~attempted THEN "none"
                      ELSE IF ~enabled THEN "skipped"
                      ELSE IF fails THEN "logged" ELSE "saved" ]

\* The executor after a call whose verification returned r, with the
\* outcome of the capture in the record of the call.
Capturing(op, ok, r, fails) ==
    LET c == with_capture(r, save_debug_on_failure, fails)
    IN  /\ calls' = calls + 1
        /\ last_state' = r.last_state
        /\ state_history' = _update_state(state_history, r.observed)
        /\ call' = [ op |-> op, ok |-> ok, result |-> c.result,
                     verdict |-> r.result, raised |-> c.raised,
                     capture |-> c.capture, commands |-> r.commands ]
        /\ UNCHANGED << patrol_vars, tracker_vars, platform, feed, dev, clock,
                        ghost_vars, file, tcall, run, marked, progress >>

ClickCapturing ==
    /\ calls < MaxCalls
    /\ \E ok \in BOOLEAN, obs \in Observations, fails \in BOOLEAN :
          Capturing("tap", ok,
                    click_and_verify(last_state, ok, obs, Empty, Empty), fails)

SwipeCapturing ==
    /\ calls < MaxCalls
    /\ \E ok \in BOOLEAN, obs \in Observations, fails \in BOOLEAN :
          Capturing("swipe", ok,
                    swipe_and_verify(last_state, TRUE, "up", ok, obs), fails)

BackCapturing ==
    /\ calls < MaxCalls
    /\ \E ok \in BOOLEAN, obs \in Observations, fails \in BOOLEAN :
          Capturing("back", ok,
                    back_and_verify(last_state, ok, obs, Empty), fails)

DebugNext ==
    \/ ClickCapturing
    \/ SwipeCapturing
    \/ BackCapturing

DebugSpec == ExecInit /\ [][DebugNext]_vars

\* C31: with debug capture enabled, every call of click_and_verify or
\* back_and_verify that returns NO_CHANGE or ERROR attempts the capture of
\* debug artifacts before it returns (the capture is the last thing the
\* call does), a swipe_and_verify that returns NO_CHANGE captures nothing,
\* and a failure during the capture is never raised and never changes the
\* returned result.
C31_CaptureOnFailure ==
    call.op \in {"tap", "swipe", "back"} =>
        /\ (call.op \in {"tap", "back"} /\ call.result \in {"no_change", "error"}) =>
              /\ call.capture \in {"saved", "logged"}
              /\ call.commands[Len(call.commands)] = "save_debug"
        /\ (call.op = "swipe" /\ call.result = "no_change") =>
              /\ call.capture = "none"
              /\ \A i \in 1..Len(call.commands) : call.commands[i] # "save_debug"
        /\ ~call.raised
        /\ call.result = call.verdict

\* A back that changed nothing has returned NO_CHANGE although the capture
\* of its artifacts failed.
C31_CaptureFailed ==
    /\ call.op = "back"
    /\ call.result = "no_change"
    /\ call.capture = "logged"

\* C32: whenever run() has returned, the state is one of COMPLETED, STOPPED
\* or ERROR, also when the launch or the search failed by returning false.
C32_TerminalOnReturn ==
    pc = "done" => state \in {"completed", "stopped", "error"}

\* run() has returned after launch_app failed, and the state is still
\* LAUNCHING_APP.
C32_ReturnedLaunching ==
    /\ pc = "done"
    /\ state = "launching_app"
    /\ "Launch failed" \in Range(report.errors)

\* C33: STOPPED is terminal.  Once stop() has set the state during a run,
\* no step of the run overwrites it, neither with COMPLETED nor with the
\* state of a phase in flight, so the state is STOPPED when run() returns.
C33_StoppedIsTerminal ==
    [][(state = "stopped" /\ pc \notin {"idle", "done"}) => state' = "stopped"]_vars

\* stop() was called while the patrol loop executed, and run() has returned
\* with the state COMPLETED.
C33_StopOverwritten ==
    /\ pc = "done"
    /\ stop_called
    /\ state = "completed"

\* C34: in the report run() returns, stats['posts_visited'] is the number of
\* posts in report.posts, stats['scrolls'] is scroll_count and
\* stats['errors'] is the number of entries in report.errors.
C34_ReportStats ==
    pc = "done" =>
        /\ report.stats.posts_visited = Len(report.posts)
        /\ report.stats.scrolls = scroll_count
        /\ report.stats.errors = Len(report.errors)

\* run() has returned a report with an entry in errors and a count of zero
\* in stats['errors'].
C34_ErrorsMiscounted ==
    /\ pc = "done"
    /\ Len(report.errors) > 0
    /\ report.stats.errors = 0

\* C35: during a post visit a back key is pressed for a navigation level
\* only if the forward click into that level returned SUCCESS: the back of
\* _back_to_results only after the post click returned SUCCESS, the back of
\* _read_post_comments only after the comments click returned SUCCESS.  No
\* back is pressed for a post or a comments view whose opening tap failed
\* with ERROR.
C35_BackOnlyAfterSuccess ==
    /\ Presses(back.commands) > 0 => visit_click = "success"
    /\ back.comments_back => back.comments_click = "success"

\* The tap on the post card failed with ERROR, and the visit has pressed
\* back all the same.
C35_BackAfterFailedTap ==
    /\ pc = "check"
    /\ visit_click = "error"
    /\ Presses(back.commands) = 1

\* C36: a failed observation, which yields the empty snapshot with the
\* placeholder hash "error", is never taken as evidence of a screen change:
\* click_and_verify, swipe_and_verify and back_and_verify do not return
\* SUCCESS on the strength of a failed re-observation, so the observation a
\* SUCCESS rests on (the last one of the call) is not the failed one.
C36_FailedObservationIsNoChange ==
    (call.op \in {"tap", "swipe", "back"} /\ call.result = "success") =>
        /\ call.reobserved # << >>
        /\ call.reobserved[Len(call.reobserved)] # ErrorState

\* A tap on the list screen has returned SUCCESS after one re-observation,
\* and that observation was a failed dump.
C36_SuccessOnFailedDump ==
    /\ call.op = "tap"
    /\ call.result = "success"
    /\ call.before_hash = ScreenList.screen_hash
    /\ call.reobserved = << ErrorState >>

\* C37: each call of click_and_verify, swipe_and_verify and back_and_verify
\* issues its input command at most once; the retries of the verification
\* only observe the screen again, at most max_retries times after the
\* command, and never repeat the command.
C37_CommandSentOnce ==
    call.op \in {"tap", "swipe", "back"} =>
        /\ Cardinality({ i \in 1..Len(call.commands) :
                            call.commands[i] = call.op }) <= 1
        /\ Sent > 0 =>
              Cardinality({ i \in (Sent + 1)..Len(call.commands) :
                               call.commands[i] = "observe" }) <= max_retries
        /\ Sent = 0 => call.result = "error"

\* A back key that changed nothing: the command was sent once and the screen
\* observed max_retries times after it.
C37_RetriedToTheEnd ==
    /\ call.op = "back"
    /\ call.result = "no_change"
    /\ Sent > 0
    /\ Cardinality({ i \in 1..Len(call.commands) : call.commands[i] = "back" }) = 1
    /\ Cardinality({ i \in (Sent + 1)..Len(call.commands) :
                        call.commands[i] = "observe" }) = max_retries

(***************************************************************************)
(* The visited map alone: a caller marks items and clears the map.         *)
(***************************************************************************)
\* clear_visited() (state_tracker.py:453-457)
ClearVisited ==
    /\ calls < MaxTrackerCalls
    /\ calls' = calls + 1
    /\ visited' = << >>
    /\ stats' = [stats EXCEPT !.posts_visited = 0]
    /\ tcall' = [ op |-> "clear_visited", args |-> << >>, value |-> << >>,
                  depth |-> Len(history) ]
    /\ UNCHANGED << current_state, history, platform, file, run, marked,
                    tracker_rest >>

VisitedNext ==
    \/ MarkVisited
    \/ ClearVisited

VisitedSpec == TrackerInit /\ [][VisitedNext]_vars

\* C38: after any sequence of mark_visited and clear_visited calls,
\* tracker.stats['posts_visited'] is the number of distinct items in the
\* visited map; marking an id that is in the map already does not take the
\* counter above the size of the map.
C38_CounterIsMapSize ==
    stats.posts_visited = Cardinality(DOMAIN visited)

\* The same item was marked twice: one entry in the map, a count of two.
C38_MarkedTwice ==
    /\ tcall.op = "mark_visited"
    /\ Cardinality(DOMAIN visited) = 1
    /\ stats.posts_visited = 2

(***************************************************************************)
(* The machine used again: after run() has returned, the caller calls      *)
(* run() once more on the same PatrolStateMachine, up to MaxRuns runs in    *)
(* all.  Only the scan of the results raises, the clock stands still and   *)
(* stop() is not called.                                                   *)
(***************************************************************************)
MaxRuns == 2

\* run(keyword) called again after an earlier run() returned, up to the call
\* of _launch_app (patrol.py:283-295).  calls counts the runs that returned.
RunAgain ==
    /\ pc = "done"
    /\ calls < MaxRuns - 1
    /\ calls' = calls + 1
    /\ pc' = "launch"
    /\ start_time' = clock
    /\ state' = "init"
    /\ report' = NewReport
    /\ stop_called' = FALSE
    /\ caught' = 0
    /\ iterations' = 0
    /\ search' = NoSearch
    /\ back' = NoBack
    /\ loop_exit' = "none"
    /\ UNCHANGED << posts_collected, current_post, scroll_count, error_count,
                    post, tracker_vars, last_state, state_history, call,
                    platform, feed, tcall, run, marked, progress, file, dev,
                    clock, processed, visit_click, posts_at_click,
                    errors_at_click >>

RerunNext ==
    \/ Run
    \/ RunAgain
    \/ LaunchApp
    \/ Launching
    \/ Finding
    \/ Typing
    \/ Verifying
    \/ Check(TRUE)
    \/ Scan(BOOLEAN)
    \/ Scrolling({FALSE})
    \/ Entering(BOOLEAN, BOOLEAN, {FALSE})
    \/ Reading({FALSE})
    \/ EnteringComments({FALSE})
    \/ ReadingComments({FALSE})
    \/ ReturningToPost({FALSE})
    \/ Returning({FALSE})
    \/ Complete
    \/ Finalize

RerunSpec == ProgressInit /\ [][RerunNext]_vars

\* C39: each run() accounts for that run only.  The posts collected, the
\* scroll count and the count of consecutive errors an earlier run() left on
\* the machine do not enter the budget checks of the next run, which starts
\* them from nothing, nor its report, which holds no more posts than the
\* run had loop iterations.
C39_RunAccountsForItself ==
    /\ [][(pc \in {"idle", "done"} /\ pc' = "launch") =>
             /\ posts_collected' = << >>
             /\ scroll_count' = 0
             /\ error_count' = 0]_vars
    /\ [](pc = "done" => Len(report.posts) <= iterations)

\* The second run has returned without one loop iteration, and its report
\* holds a post: the one the first run collected.
C39_ReportOfEarlierRun ==
    /\ calls = 1
    /\ pc = "done"
    /\ iterations = 0
    /\ Len(report.posts) = 1

====
